---- MODULE Spec2Model ----
(***************************************************************************)
(* Transcript segmentation (vtt_parser.py, chunker.py), segment            *)
(* evaluation (analyzer.py), score aggregation (aggregator.py) and the     *)
(* run of the whole pipeline (api/tasks/process-video.py, main.py) of the  *)
(* lecture feedback program, and the task status kept by its webhook       *)
(* handlers (api/webhook/process-async.py, process-split.py, process.py,   *)
(* status.py).                                                             *)
(*                                                                         *)
(* Times are whole seconds.  A text is an abstract token of the set Texts  *)
(* whose tokenizer values (TextTokens, SpaceCost) stand for what the       *)
(* tiktoken encoder returns for it.  A content string built with           *)
(* " ".join(parts) is the sequence of its parts; count_tokens evaluates    *)
(* the encoder on the joined string.                                       *)
(***************************************************************************)
EXTENDS Integers, Sequences, FiniteSets, TLC

VARIABLES
    seg_pc,        \* position of the VTT segmentation run
    vtt_entries,   \* list[VTTEntry] returned by the parser
    blocks,        \* list[TimeBlock] returned by chunk_from_vtt_content
    text_pc,       \* position of the text-mode chunking runs
    text_lines,    \* content.split("\n") of the transcript text
    clock,         \* the last reading of datetime.now(), in seconds
    runs,          \* what each call of chunk_transcription returned
    agg_pc,        \* position of the report creation
    block_analyses,\* list[BlockAnalysis] handed to create_complete_report
    report,        \* what create_complete_report returned or raised
    parse_pc,      \* position of the parsing of one evaluator response
    response,      \* the decoded JSON response handed to _parse_api_response
    parsed,        \* what _parse_api_response returned or raised
    cap_pc,        \* position of the chunking of a caption stream
    vtt_content,   \* the caption stream (VTT text) before it is parsed
    cap_result,    \* what the chunker entry point returned or raised
    pipe_pc,       \* position of the pipeline run
    driver,        \* the function that runs the evaluation loop
    cur,           \* index of the segment being evaluated
    attempt,       \* the loop variable of analyze_block
    log,           \* the steps the run has taken, in order
    failure,       \* the exception that ended the run ("" if none)
    processing_tasks, \* process-async.py: the in-memory dict of tasks
    thread,        \* process-async.py: where each background thread stands
    status_req,    \* process-async.py: the status request being handled
    replies,       \* process-async.py: what the status requests were answered
    task_files,    \* process-split.py: the task files under STORAGE_PATH
    split_handler, \* process-split.py: where the request handler stands
    bg,            \* process-split.py: the threads of process_with_timeout
    split_replies, \* process-split.py: what the requests were answered
    redis_task,    \* the Redis keys task:{task_id}
    redis_result,  \* the Redis keys result:{task_id}
    worker,        \* process-video.py: where the handler of each task stands
    status_get,    \* status.py: the status request being handled
    status_replies \* status.py: what the status requests were answered

segVars == <<seg_pc, vtt_entries, blocks>>

textVars == <<text_pc, text_lines, clock, runs>>

aggVars == <<agg_pc, block_analyses, report>>

parseVars == <<parse_pc, response, parsed>>

capVars == <<cap_pc, vtt_content, cap_result>>

pipeVars == <<pipe_pc, driver, cur, attempt, log, failure>>

asyncVars == <<processing_tasks, thread, status_req, replies>>

splitVars == <<task_files, split_handler, bg, split_replies>>

queueVars == <<redis_task, redis_result, worker, status_get, status_replies>>

webVars == <<asyncVars, splitVars, queueVars>>

vars == <<segVars, textVars, aggVars, parseVars, capVars, pipeVars, webVars>>

---------------------------------------------------------------------------
(* config.py *)
CHUNK_DURATION_MINUTES == 30
MAX_TOKENS_PER_CHUNK == 15000

(* Bounds of the model *)
MaxEntries == 3

MaxLines == 3

MaxRuns == 2

\* segment evaluations of a single criterion
MaxScores == 4

\* segment evaluations that list several criteria
MaxBlocks == 2

---------------------------------------------------------------------------
(* Generic helpers *)
Range(s) == {s[i] : i \in 1..Len(s)}

SeqsUpTo(S, n) == UNION {[1..k -> S] : k \in 0..n}

Min(a, b) == IF a < b THEN a ELSE b

Max(a, b) == IF a > b THEN a ELSE b

Prefix(s, n) == SubSeq(s, 1, Min(n, Len(s)))

---------------------------------------------------------------------------
(* Token counter: chunker.count_tokens = len(encoder.encode(text)).        *)
(* The encoder splits a string into pieces before byte-pair merging; a     *)
(* word takes the blank in front of it into its first piece, a number      *)
(* does not, so a blank in front of a text that starts with a digit is a   *)
(* token of its own.                                                       *)
NoSpeaker == "None"

Texts == {"w", "7", "near", "huge"}

TextTokens(t) ==
    CASE t = "w" -> 1
      [] t = "7" -> 1
      [] t = "near" -> MAX_TOKENS_PER_CHUNK - 1
      [] t = "huge" -> 20000

SpaceCost(t) == IF t = "7" THEN 1 ELSE 0

\* tokens of "Speaker X:" ("Speaker", " X", ":")
PrefixTokens == 3

\* one element of the list handed to " ".join: "Speaker {prefix}: {text}" or "{text}"
PartTokens(p) ==
    IF p.prefix # NoSpeaker
    THEN PrefixTokens + SpaceCost(p.text) + TextTokens(p.text)
    ELSE TextTokens(p.text)

JoinTokens(p) == IF p.prefix # NoSpeaker THEN 0 ELSE SpaceCost(p.text)

RECURSIVE SumParts(_, _)
SumParts(parts, j) ==
    IF j > Len(parts) THEN 0
    ELSE PartTokens(parts[j]) + (IF j > 1 THEN JoinTokens(parts[j]) ELSE 0)
         + SumParts(parts, j + 1)

count_tokens(parts) == SumParts(parts, 1)

---------------------------------------------------------------------------
(* vtt_parser.py *)

\* "HH:MM" of a number of seconds
seconds_to_time_string(seconds) ==
    <<seconds \div 3600, (seconds % 3600) \div 60>>

\* block_text_parts of one window: a prefix only where the speaker changes
RECURSIVE BlockTextParts(_, _, _)
BlockTextParts(entries, idxs, current_speaker) ==
    IF idxs = <<>> THEN <<>>
    ELSE LET e == entries[Head(idxs)]
         IN  IF e.speaker # NoSpeaker /\ e.speaker # current_speaker
             THEN <<[prefix |-> e.speaker, text |-> e.text]>>
                  \o BlockTextParts(entries, Tail(idxs), e.speaker)
             ELSE <<[prefix |-> NoSpeaker, text |-> e.text]>>
                  \o BlockTextParts(entries, Tail(idxs), current_speaker)

InWindow(entries, lo, hi) ==
    SelectSeq([i \in 1..Len(entries) |-> i],
              LAMBDA i : entries[i].start_seconds >= lo /\ entries[i].start_seconds < hi)

BlockInfo(entries, block_number, lo, hi) ==
    [block_number |-> block_number,
     start_time |-> seconds_to_time_string(lo),
     end_time |-> seconds_to_time_string(hi),
     start_seconds |-> lo,
     end_seconds |-> hi,
     content |-> BlockTextParts(entries, InWindow(entries, lo, hi), NoSpeaker),
     entries |-> InWindow(entries, lo, hi)]

\* the while loop over current_block_start
RECURSIVE GroupLoop(_, _, _, _, _)
GroupLoop(entries, block_duration_seconds, total_duration, current_block_start, block_number) ==
    IF ~(current_block_start < total_duration) THEN <<>>
    ELSE LET current_block_end == current_block_start + block_duration_seconds
         IN  IF InWindow(entries, current_block_start, current_block_end) # <<>>
             THEN <<BlockInfo(entries, block_number, current_block_start, current_block_end)>>
                  \o GroupLoop(entries, block_duration_seconds, total_duration,
                               current_block_end, block_number + 1)
             ELSE GroupLoop(entries, block_duration_seconds, total_duration,
                            current_block_end, block_number)

\* only the windows that end within the total duration are walked
group_by_time_blocks_full_windows(entries, block_duration_minutes) ==
    IF entries = <<>> THEN <<>>
    ELSE GroupLoop(entries, block_duration_minutes * 60,
                   entries[Len(entries)].end_seconds - block_duration_minutes * 60, 0, 1)

group_by_time_blocks(entries, block_duration_minutes) ==
    IF entries = <<>> THEN <<>>
    ELSE GroupLoop(entries, block_duration_minutes * 60,
                   entries[Len(entries)].end_seconds, 0, 1)

---------------------------------------------------------------------------
(* chunker.py: VTT mode *)

\* a TimeBlock; entries (the indices of the entries the content was built
\* from) is bookkeeping of the model, the content is what the code keeps
TimeBlock(block_number, start_time, end_time, content, idxs) ==
    [block_number |-> block_number, start_time |-> start_time,
     end_time |-> end_time, content |-> content, entries |-> idxs]

\* f"Speaker {e.speaker}: {e.text}" if e.speaker else e.text
EntryText(e) == [prefix |-> e.speaker, text |-> e.text]

SubBlock(entries, block_number, sub_block_number, current_entries) ==
    TimeBlock(<<block_number, sub_block_number>>,
              seconds_to_time_string(entries[Head(current_entries)].start_seconds)
                  \o <<sub_block_number>>,
              seconds_to_time_string(
                  entries[current_entries[Len(current_entries)]].end_seconds)
                  \o <<sub_block_number>>,
              [j \in 1..Len(current_entries) |-> EntryText(entries[current_entries[j]])],
              current_entries)

RECURSIVE SplitLoop(_, _, _, _, _, _)
SplitLoop(entries, block_number, rest, sub_block_number, current_entries, current_tokens) ==
    IF rest = <<>>
    THEN IF current_entries # <<>>
         THEN <<SubBlock(entries, block_number, sub_block_number, current_entries)>>
         ELSE <<>>
    ELSE LET entry_tokens == count_tokens(<<EntryText(entries[Head(rest)])>>)
         IN  IF current_tokens + entry_tokens > MAX_TOKENS_PER_CHUNK /\ current_entries # <<>>
             THEN <<SubBlock(entries, block_number, sub_block_number, current_entries)>>
                  \o SplitLoop(entries, block_number, Tail(rest), sub_block_number + 1,
                               <<Head(rest)>>, entry_tokens)
             ELSE SplitLoop(entries, block_number, Tail(rest), sub_block_number,
                            Append(current_entries, Head(rest)),
                            current_tokens + entry_tokens)

\* every entry of the window made a sub-block of its own
_split_vtt_block_per_entry(entries, block_info) ==
    [j \in 1..Len(block_info.entries) |->
        SubBlock(entries, block_info.block_number, j, <<block_info.entries[j]>>)]

\* the window emitted as one sub-block, whatever its size
_split_vtt_block_unsplit(entries, block_info) ==
    <<SubBlock(entries, block_info.block_number, 1, block_info.entries)>>

_split_vtt_block(entries, block_info) ==
    SplitLoop(entries, block_info.block_number, block_info.entries, 1, <<>>, 0)

RECURSIVE ConvertBlocks(_, _)
ConvertBlocks(entries, time_blocks) ==
    IF time_blocks = <<>> THEN <<>>
    ELSE LET block_info == Head(time_blocks)
         IN  (IF count_tokens(block_info.content) <= MAX_TOKENS_PER_CHUNK
              THEN <<TimeBlock(<<block_info.block_number>>, block_info.start_time,
                               block_info.end_time, block_info.content,
                               block_info.entries)>>
              ELSE _split_vtt_block(entries, block_info))
             \o ConvertBlocks(entries, Tail(time_blocks))

\* chunk_from_vtt_content after parse_vtt_content has returned entries
chunk_from_vtt_content(entries) ==
    IF entries = <<>> THEN <<>>
    ELSE ConvertBlocks(entries, group_by_time_blocks(entries, CHUNK_DURATION_MINUTES))

---------------------------------------------------------------------------
(* chunker.py: text mode.  A line is [ts, text]: ts is the first "HH:MM"   *)
(* the patterns of extract_timestamps find in it (NoTs if none), text one  *)
(* of Texts or "" for a blank line.  A datetime is a number of seconds,    *)
(* day * 86400 + seconds of the day.  One call of chunk_transcription      *)
(* reads the clock as one value: its calls of datetime.now() are taken to  *)
(* fall in the same second.                                                *)
NoTs == <<>>

LineTokens(line) == IF line.text = "" THEN 0 ELSE TextTokens(line.text)

\* tokens of the "\n" between two joined lines
NewlineTokens == 1

RECURSIVE SumLines(_, _)
SumLines(lines, j) ==
    IF j > Len(lines) THEN 0
    ELSE LineTokens(lines[j]) + (IF j > 1 THEN NewlineTokens ELSE 0)
         + SumLines(lines, j + 1)

\* count_tokens("\n".join(lines))
count_tokens_lines(lines) == SumLines(lines, 1)

\* the (timestamp, line) tuples, in line order; idx is the line's index
extract_timestamps(lines) ==
    LET hit == SelectSeq([i \in 1..Len(lines) |-> i], LAMBDA i : lines[i].ts # NoTs)
    IN  [k \in 1..Len(hit) |-> [ts |-> lines[hit[k]].ts, idx |-> hit[k]]]

\* datetime.now().replace(hour, minute, second=0, microsecond=0); replace
\* raises ValueError for hour > 23 or minute > 59, which parse_time
\* swallows to return datetime.now()
parse_time(time_str, now) ==
    IF time_str[1] <= 23 /\ time_str[2] <= 59
    THEN (now \div 86400) * 86400 + time_str[1] * 3600 + time_str[2] * 60
    ELSE now

\* strftime("%H:%M")
strftime(dt) == <<(dt % 86400) \div 3600, (dt % 3600) \div 60>>

\* list.sort(key=lambda x: x[0]) is stable
RECURSIVE InsertByDt(_, _)
InsertByDt(sorted, x) ==
    IF sorted = <<>> THEN <<x>>
    ELSE IF x.dt < sorted[Len(sorted)].dt
         THEN Append(InsertByDt(SubSeq(sorted, 1, Len(sorted) - 1), x), sorted[Len(sorted)])
         ELSE Append(sorted, x)

RECURSIVE SortByDt(_)
SortByDt(s) ==
    IF s = <<>> THEN <<>>
    ELSE InsertByDt(SortByDt(SubSeq(s, 1, Len(s) - 1)), s[Len(s)])

TextBlock(lines, block_number, current_block_start, current_block_content) ==
    TimeBlock(<<block_number>>,
              strftime(current_block_start),
              strftime(current_block_start + CHUNK_DURATION_MINUTES * 60),
              [j \in 1..Len(current_block_content) |-> lines[current_block_content[j]]],
              current_block_content)

RECURSIVE TimeLoop(_, _, _, _, _)
TimeLoop(lines, rest, block_number, current_block_start, current_block_content) ==
    IF rest = <<>>
    THEN IF current_block_content # <<>>
         THEN <<TextBlock(lines, block_number, current_block_start, current_block_content)>>
         ELSE <<>>
    ELSE LET x == Head(rest)
         IN  IF x.dt >= current_block_start + CHUNK_DURATION_MINUTES * 60
             THEN (IF current_block_content # <<>>
                   THEN <<TextBlock(lines, block_number, current_block_start,
                                    current_block_content)>>
                   ELSE <<>>)
                  \o TimeLoop(lines, Tail(rest),
                              IF current_block_content # <<>> THEN block_number + 1
                              ELSE block_number,
                              x.dt, <<x.idx>>)
             ELSE TimeLoop(lines, Tail(rest), block_number, current_block_start,
                           Append(current_block_content, x.idx))

FallbackBlock(lines, block_number, current_block) ==
    TimeBlock(<<block_number>>,
              <<"Block", block_number, "Start">>,
              <<"Block", block_number, "End">>,
              [j \in 1..Len(current_block) |-> lines[current_block[j]]],
              current_block)

RECURSIVE FallbackLoop(_, _, _, _, _)
FallbackLoop(lines, i, block_number, current_block, current_tokens) ==
    IF i > Len(lines)
    THEN IF current_block # <<>>
         THEN <<FallbackBlock(lines, block_number, current_block)>>
         ELSE <<>>
    ELSE LET line_tokens == LineTokens(lines[i])
         IN  IF current_tokens + line_tokens > MAX_TOKENS_PER_CHUNK /\ current_block # <<>>
             THEN <<FallbackBlock(lines, block_number, current_block)>>
                  \o FallbackLoop(lines, i + 1, block_number + 1, <<i>>, line_tokens)
             ELSE FallbackLoop(lines, i + 1, block_number, Append(current_block, i),
                               current_tokens + line_tokens)

\* every line a chunk of its own
create_fallback_blocks_per_line(lines) ==
    [i \in 1..Len(lines) |-> FallbackBlock(lines, i, <<i>>)]

create_fallback_blocks(lines) == FallbackLoop(lines, 1, 1, <<>>, 0)

create_time_based_blocks(lines, now) ==
    LET timestamps == extract_timestamps(lines)
        sorted_timestamps ==
            SortByDt([k \in 1..Len(timestamps) |->
                         [dt |-> parse_time(timestamps[k].ts, now),
                          idx |-> timestamps[k].idx]])
    IN  IF timestamps = <<>> THEN create_fallback_blocks(lines)
        ELSE TimeLoop(lines, sorted_timestamps, 1, sorted_timestamps[1].dt, <<>>)

LargeSubBlock(lines, block, sub_block_number, current_lines) ==
    TimeBlock(<<block.block_number[1], sub_block_number>>,
              block.start_time \o <<sub_block_number>>,
              block.end_time \o <<sub_block_number>>,
              [j \in 1..Len(current_lines) |-> lines[current_lines[j]]],
              current_lines)

RECURSIVE LargeLoop(_, _, _, _, _, _)
LargeLoop(lines, block, rest, sub_block_number, current_lines, current_tokens) ==
    IF rest = <<>>
    THEN IF current_lines # <<>>
         THEN <<LargeSubBlock(lines, block, sub_block_number, current_lines)>>
         ELSE <<>>
    ELSE LET line_tokens == LineTokens(lines[Head(rest)])
         IN  IF current_tokens + line_tokens > MAX_TOKENS_PER_CHUNK /\ current_lines # <<>>
             THEN <<LargeSubBlock(lines, block, sub_block_number, current_lines)>>
                  \o LargeLoop(lines, block, Tail(rest), sub_block_number + 1,
                               <<Head(rest)>>, line_tokens)
             ELSE LargeLoop(lines, block, Tail(rest), sub_block_number,
                            Append(current_lines, Head(rest)),
                            current_tokens + line_tokens)

_split_large_block(lines, block) == LargeLoop(lines, block, block.entries, 1, <<>>, 0)

RECURSIVE ValidateBlocks(_, _)
ValidateBlocks(lines, bs) ==
    IF bs = <<>> THEN <<>>
    ELSE (IF count_tokens_lines(Head(bs).content) <= MAX_TOKENS_PER_CHUNK
          THEN <<Head(bs)>>
          ELSE _split_large_block(lines, Head(bs)))
         \o ValidateBlocks(lines, Tail(bs))

\* chunk_transcription(content) without a VTT file, the clock reading now
chunk_transcription(lines, now) ==
    IF \A i \in 1..Len(lines) : lines[i].text = "" /\ lines[i].ts = NoTs
    THEN <<>>
    ELSE ValidateBlocks(lines, create_time_based_blocks(lines, now))

---------------------------------------------------------------------------
(* The caption stream before it is parsed.  vtt_content is [header,        *)
(* captions]: header says whether the text starts with a well-formed       *)
(* WEBVTT header, a caption is [start, end, voice, text] with times        *)
(* "HH:MM:SS.mmm" kept as <<hours, minutes, seconds>> and the caption's    *)
(* text "Speaker {voice}: {text}", or "{text}" if voice is NoSpeaker.      *)

\* a time string whose parts are not numbers
MalformedTime == <<-1, 0, 0>>

\* the seconds of a time string, or the ValueError "Invalid time format"
_time_to_seconds(time_str) ==
    IF time_str = MalformedTime
    THEN [raised |-> "ValueError", value |-> 0]
    ELSE [raised |-> "", value |-> time_str[1] * 3600 + time_str[2] * 60 + time_str[3]]

\* speaker and cleaned text of a caption's text
extract_speaker(caption) == <<caption.voice, caption.text>>

\* webvtt.read raises on a malformed header (raised again as OSError); a
\* time the conversion rejects raises ValueError
parse_vtt_file(vtt) ==
    IF ~vtt.header THEN [raised |-> "OSError", entries |-> <<>>]
    ELSE IF \E i \in 1..Len(vtt.captions) :
                \/ _time_to_seconds(vtt.captions[i].start).raised # ""
                \/ _time_to_seconds(vtt.captions[i].end).raised # ""
         THEN [raised |-> "ValueError", entries |-> <<>>]
         ELSE [raised |-> "",
               entries |-> [i \in 1..Len(vtt.captions) |->
                   [start_seconds |-> _time_to_seconds(vtt.captions[i].start).value,
                    end_seconds |-> _time_to_seconds(vtt.captions[i].end).value,
                    text |-> extract_speaker(vtt.captions[i])[2],
                    speaker |-> extract_speaker(vtt.captions[i])[1]]]]

\* the content is written to a temporary file and parsed as a file
parse_vtt_content(vtt_content_str) == parse_vtt_file(vtt_content_str)

\* chunk_from_vtt_content as it is called: the parse, and the except clause
\* that answers any exception with the empty list
chunk_from_vtt_content_guarded(vtt_content_str) ==
    LET p == parse_vtt_content(vtt_content_str)
    IN  IF p.raised # "" THEN <<>> ELSE chunk_from_vtt_content(p.entries)

\* chunk_from_vtt: the same steps on a VTT file
chunk_from_vtt(vtt_file) ==
    LET p == parse_vtt_file(vtt_file)
    IN  IF p.raised # "" THEN <<>> ELSE chunk_from_vtt_content(p.entries)

\* chunk_transcription(content, vtt_file_path) with a VTT file that exists
chunk_transcription_with_vtt(lines, vtt_file, now) ==
    IF \A i \in 1..Len(lines) : lines[i].text = "" /\ lines[i].ts = NoTs
    THEN <<>>
    ELSE LET vtt_blocks == chunk_from_vtt(vtt_file)
         IN  IF vtt_blocks # <<>> THEN vtt_blocks
             ELSE chunk_transcription(lines, now)

---------------------------------------------------------------------------
(* config.py: the rubric.  EVALUATION_CRITERIA is the ordered list of the  *)
(* rubric's keys, here the first two of the ten.                           *)
EVALUATION_CRITERIA == <<"struktur_klarheit", "erklaerungskompetenz">>

TRAFFIC_LIGHTS ==
    [k \in 1..5 |-> CASE k >= 4 -> "green" [] k = 3 -> "yellow" [] OTHER -> "red"]

TrafficLight(k) == IF k \in DOMAIN TRAFFIC_LIGHTS THEN TRAFFIC_LIGHTS[k] ELSE "yellow"

---------------------------------------------------------------------------
(* aggregator.py.  A per-segment score is an integer; a consolidated score *)
(* and the overall score are numbers with one decimal, kept in tenths.     *)

\* Python's round() of the fraction n / d to an integer: to the nearest,
\* a tie to the even neighbour
PyRound(n, d) ==
    LET q == n \div d
        r == n % d
    IN  IF 2 * r < d THEN q
        ELSE IF 2 * r > d THEN q + 1
        ELSE IF q % 2 = 0 THEN q ELSE q + 1

\* all criterion scores in the order the two nested loops visit them
RECURSIVE Flatten(_)
Flatten(analyses) ==
    IF analyses = <<>> THEN <<>>
    ELSE Head(analyses).criteria_scores \o Flatten(Tail(analyses))

\* keys of criterion_totals in insertion order
RECURSIVE KeysInOrder(_, _)
KeysInOrder(flat, seen) ==
    IF flat = <<>> THEN <<>>
    ELSE IF Head(flat).criterion_key \in seen THEN KeysInOrder(Tail(flat), seen)
    ELSE <<Head(flat).criterion_key>>
         \o KeysInOrder(Tail(flat), seen \cup {Head(flat).criterion_key})

\* criterion_totals[key]
RECURSIVE criterion_totals(_, _)
criterion_totals(flat, key) ==
    IF flat = <<>> THEN <<>>
    ELSE (IF Head(flat).criterion_key = key THEN <<Head(flat).score>> ELSE <<>>)
         \o criterion_totals(Tail(flat), key)

\* the quotes of a later segment put in front instead of appended
RECURSIVE criterion_quotes_prepended(_, _)
criterion_quotes_prepended(flat, key) ==
    IF flat = <<>> THEN <<>>
    ELSE criterion_quotes_prepended(Tail(flat), key)
         \o (IF Head(flat).criterion_key = key THEN Head(flat).quotes ELSE <<>>)

\* criterion_quotes[key]
RECURSIVE criterion_quotes(_, _)
criterion_quotes(flat, key) ==
    IF flat = <<>> THEN <<>>
    ELSE (IF Head(flat).criterion_key = key THEN Head(flat).quotes ELSE <<>>)
         \o criterion_quotes(Tail(flat), key)

RECURSIVE Sum(_)
Sum(s) == IF s = <<>> THEN 0 ELSE Head(s) + Sum(Tail(s))

\* round(sum(scores) / len(scores), 1), in tenths
rounded_score(scores) == PyRound(10 * Sum(scores), Len(scores))

\* round(rounded_score)
traffic_light_score(rounded) == PyRound(rounded, 10)

\* the limit taken from the traffic light's integer instead of the score
selected_quotes_by_light(rounded, all_quotes) ==
    IF traffic_light_score(rounded) <= 3 THEN Prefix(all_quotes, 2) ELSE Prefix(all_quotes, 1)

selected_quotes(rounded, all_quotes) ==
    IF rounded <= 30 THEN Prefix(all_quotes, 2) ELSE Prefix(all_quotes, 1)

AggregatedCriterion(flat, key) ==
    LET rounded == rounded_score(criterion_totals(flat, key))
    IN  [criterion_key |-> key,
         score |-> rounded,
         traffic_light |-> TrafficLight(traffic_light_score(rounded)),
         quotes |-> selected_quotes(rounded, criterion_quotes(flat, key))]

\* criterion_order.index(key) if the key is in the rubric, else 999
OrderKey(key) ==
    IF \E i \in 1..Len(EVALUATION_CRITERIA) : EVALUATION_CRITERIA[i] = key
    THEN (CHOOSE i \in 1..Len(EVALUATION_CRITERIA) : EVALUATION_CRITERIA[i] = key) - 1
    ELSE 999

\* list.sort(key=...) is stable
RECURSIVE InsertByOrder(_, _)
InsertByOrder(sorted, x) ==
    IF sorted = <<>> THEN <<x>>
    ELSE IF OrderKey(x.criterion_key) < OrderKey(sorted[Len(sorted)].criterion_key)
         THEN Append(InsertByOrder(SubSeq(sorted, 1, Len(sorted) - 1), x),
                     sorted[Len(sorted)])
         ELSE Append(sorted, x)

RECURSIVE SortByOrder(_)
SortByOrder(s) ==
    IF s = <<>> THEN <<>>
    ELSE InsertByOrder(SortByOrder(SubSeq(s, 1, Len(s) - 1)), s[Len(s)])

\* the consolidated criteria left in the order their keys were first met
_aggregate_criterion_scores_unsorted(analyses) ==
    LET flat == Flatten(analyses)
        keys == KeysInOrder(flat, {})
    IN  [k \in 1..Len(keys) |-> AggregatedCriterion(flat, keys[k])]

_aggregate_criterion_scores(analyses) ==
    LET flat == Flatten(analyses)
        keys == KeysInOrder(flat, {})
    IN  SortByOrder([k \in 1..Len(keys) |-> AggregatedCriterion(flat, keys[k])])

RECURSIVE SumScores(_)
SumScores(criteria) ==
    IF criteria = <<>> THEN 0 ELSE Head(criteria).score + SumScores(Tail(criteria))

\* round(sum(cs.score) / len(aggregated_criteria), 1), in tenths.  The
\* scores are floats with one decimal: where the exact mean lies halfway
\* between two tenths the float sum decides the direction, so both
\* neighbours are outcomes.
OverallScores(criteria) ==
    LET total == SumScores(criteria)
        n == Len(criteria)
    IN  IF 2 * (total % n) = n THEN {total \div n, total \div n + 1}
        ELSE {PyRound(total, n)}

_create_empty_analysis ==
    [overall_score |-> 0,
     criteria_scores |-> <<>>,
     strengths |-> <<"Keine Analyse moeglich - keine Daten verfuegbar">>]

\* the overall score taken over every per-segment score instead of over
\* the consolidated criteria
aggregate_scores_per_segment(analyses) ==
    IF analyses = <<>> THEN {[raised |-> "", value |-> _create_empty_analysis]}
    ELSE LET aggregated_criteria == _aggregate_criterion_scores(analyses)
             flat == Flatten(analyses)
         IN  IF aggregated_criteria = <<>>
             THEN {[raised |-> "ZeroDivisionError", value |-> <<>>]}
             ELSE {[raised |-> "",
                    value |-> [overall_score |->
                                   PyRound(10 * Sum([i \in 1..Len(flat) |-> flat[i].score]),
                                           Len(flat)),
                               criteria_scores |-> aggregated_criteria,
                               strengths |-> <<>>]]}

\* the empty list not answered before the division
aggregate_scores_unguarded(analyses) ==
    LET aggregated_criteria == _aggregate_criterion_scores(analyses)
    IN  IF aggregated_criteria = <<>>
        THEN {[raised |-> "ZeroDivisionError", value |-> <<>>]}
        ELSE {[raised |-> "",
               value |-> [overall_score |-> o,
                          criteria_scores |-> aggregated_criteria,
                          strengths |-> <<>>]] :
                  o \in OverallScores(aggregated_criteria)}

\* the results of aggregate_scores; the division by len(aggregated_criteria)
\* raises when no criterion was collected
aggregate_scores(analyses) ==
    IF analyses = <<>> THEN {[raised |-> "", value |-> _create_empty_analysis]}
    ELSE LET aggregated_criteria == _aggregate_criterion_scores(analyses)
         IN  IF aggregated_criteria = <<>>
             THEN {[raised |-> "ZeroDivisionError", value |-> <<>>]}
             ELSE {[raised |-> "",
                    value |-> [overall_score |-> o,
                               criteria_scores |-> aggregated_criteria,
                               strengths |-> <<>>]] :
                       o \in OverallScores(aggregated_criteria)}

\* the per-segment detail stored last segment first
create_complete_report_reversed(analyses) ==
    {IF a.raised # "" THEN a
     ELSE [raised |-> "",
           value |-> [overall_score |-> a.value.overall_score,
                      aggregated_analysis |-> a.value,
                      block_analyses |->
                          [b \in 1..Len(analyses) |-> analyses[Len(analyses) + 1 - b]],
                      metadata |-> [total_blocks |-> Len(analyses)]]] :
         a \in aggregate_scores(analyses)}

create_complete_report(analyses) ==
    {IF a.raised # "" THEN a
     ELSE [raised |-> "",
           value |-> [overall_score |-> a.value.overall_score,
                      aggregated_analysis |-> a.value,
                      block_analyses |-> analyses,
                      metadata |-> [total_blocks |-> Len(analyses)]]] :
         a \in aggregate_scores(analyses)}

---------------------------------------------------------------------------
(* analyzer.py: _parse_api_response.  The decoded response is taken as     *)
(* response["block_analysis"]["criteria"]: for a key it has no entry       *)
(* (shape "absent"), an entry that is no dict (shape "null") or a dict     *)
(* whose "score" and "quotes" are each missing, null or a value.  A        *)
(* number of the response is kept in tenths.                               *)
Missing == <<"missing", 0>>

Null == <<"null", 0>>

\* a string that float() does not accept
NotANumber == <<"text", 0>>

Number(tenths) == <<"number", tenths>>

\* a list of n strings
QuoteList(n) == <<"list", n>>

\* criteria_data.get(criterion_key, {})
criterion_result(criteria_data, criterion_key) ==
    IF criterion_key \in DOMAIN criteria_data
           /\ criteria_data[criterion_key].shape # "absent"
    THEN criteria_data[criterion_key]
    ELSE [shape |-> "dict", score |-> Missing, quotes |-> Missing]

\* what makes the loop body raise: .get on a value that is no dict, float()
\* of a string that is no number, a CriterionScore whose quotes are null
CriterionRaises(result) ==
    \/ result.shape # "dict"
    \/ result.score = NotANumber
    \/ result.quotes = Null

\* criterion_result.get("score", 3), then float(score) if score is not
\* None else 3.0; in tenths
float_score(result) ==
    IF result.score[1] = "number" THEN result.score[2] ELSE 30

\* the score as the response gives it
clamped_score_unbounded(score) == score

\* max(1.0, min(5.0, score))
clamped_score(score) == Max(10, Min(50, score))

\* round(score) of the clamped score
rounded_block_score(result) == PyRound(clamped_score(float_score(result)), 10)

\* criterion_result.get("quotes", []); the strings are named by segment,
\* place of the criterion and place in the list
quotes_of(result, block, c) ==
    IF result.quotes[1] = "list"
    THEN [j \in 1..result.quotes[2] |-> <<block.block_number, c, j>>]
    ELSE <<>>

ParsedCriterion(criteria_data, block, c) ==
    LET criterion_key == EVALUATION_CRITERIA[c]
        result == criterion_result(criteria_data, criterion_key)
        score == rounded_block_score(result)
    IN  [criterion_key |-> criterion_key,
         score |-> score,
         traffic_light |-> TrafficLight(score),
         quotes |-> quotes_of(result, block, c)]

\* BlockAnalysis(...); overall_block_score in tenths
ParsedBlockAnalysis(block, criterion_scores) ==
    [block_number |-> block.block_number,
     time_range |-> <<block.start_time, block.end_time>>,
     criteria_scores |-> criterion_scores,
     overall_block_score |->
         IF criterion_scores = <<>> THEN 0
         ELSE PyRound(10 * Sum([c \in 1..Len(criterion_scores) |-> criterion_scores[c].score]),
                      Len(EVALUATION_CRITERIA))]

ParseFailure == [raised |-> "Failed to parse API response", value |-> <<>>]

\* only the criteria the response has an entry for
_parse_api_response_present_only(criteria_data, block) ==
    IF \E c \in 1..Len(EVALUATION_CRITERIA) :
           CriterionRaises(criterion_result(criteria_data, EVALUATION_CRITERIA[c]))
    THEN ParseFailure
    ELSE LET present == SelectSeq([c \in 1..Len(EVALUATION_CRITERIA) |-> c],
                                  LAMBDA c : criteria_data[EVALUATION_CRITERIA[c]].shape = "dict")
         IN  [raised |-> "",
              value |-> ParsedBlockAnalysis(block,
                            [k \in 1..Len(present) |->
                                ParsedCriterion(criteria_data, block, present[k])])]

\* the loop over EVALUATION_CRITERIA.items(); any exception of the body is
\* raised again as "Failed to parse API response for block ..."
_parse_api_response(criteria_data, block) ==
    IF \E c \in 1..Len(EVALUATION_CRITERIA) :
           CriterionRaises(criterion_result(criteria_data, EVALUATION_CRITERIA[c]))
    THEN ParseFailure
    ELSE [raised |-> "",
          value |-> ParsedBlockAnalysis(block,
                        [c \in 1..Len(EVALUATION_CRITERIA) |->
                            ParsedCriterion(criteria_data, block, c)])]

---------------------------------------------------------------------------
(* analyzer.py: analyze_block, one pass of its retry loop at a time, and   *)
(* the loop over the segments (analyze_blocks, _process_video, main).      *)

\* the default of analyze_block's parameter retry_count
DEFAULT_RETRY_COUNT == 3

\* one more attempt than retry_count
should_retry_once_more(attempt_no, retry_count) == attempt_no < retry_count

\* attempt < retry_count - 1
should_retry(attempt_no, retry_count) == attempt_no < retry_count - 1

\* (2**attempt) + uniform(0, 1): the whole seconds of the wait, the jitter
\* adds less than one second
wait_time(attempt_no) == 2 ^ attempt_no

NoFailure == [type |-> "", message |-> "", block_number |-> <<>>, attempts |-> 0]

\* Exception(f"Failed to analyze block {block.block_number} after
\* {retry_count} attempts") from None
analysis_failure(block, retry_count) ==
    [type |-> "Exception", message |-> "Failed to analyze block after attempts",
     block_number |-> block.block_number, attempts |-> retry_count]

\* ValueError("No analyzable blocks found in transcription")
NoBlocksFailure ==
    [type |-> "ValueError", message |-> "No analyzable blocks found in transcription",
     block_number |-> <<>>, attempts |-> 0]

\* one step of a run, as the log keeps it
Step(step, block_index, attempt_no, outcome, wait) ==
    [step |-> step, block |-> block_index, attempt |-> attempt_no,
     outcome |-> outcome, wait |-> wait]

\* the try body of one attempt: the API call raises, or its response is
\* decoded and parsed
attempt_result(o, block) ==
    IF o.kind = "response" THEN _parse_api_response(o.response, block)
    ELSE [raised |-> o.kind, value |-> <<>>]

\* the new evaluation put in front of the list
append_analysis_in_front(analyses, analysis) == <<analysis>> \o analyses

\* block_analyses.append(analysis)
append_analysis(analyses, analysis) == Append(analyses, analysis)

\* where the run goes on after analyze_block has returned for segment c of n
AfterReturn(drv, c, n) ==
    IF c < n THEN [pipe_pc |-> "call", cur |-> c + 1, raised |-> FALSE]
    ELSE [pipe_pc |-> IF drv = "analyze_blocks" THEN "returned" ELSE "aggregate",
          cur |-> c, raised |-> FALSE]

\* a segment whose attempts are used up is passed over
AfterExceptionSkipping(drv, c, n, attempt_no, retry_count) ==
    IF should_retry(attempt_no, retry_count)
    THEN [pipe_pc |-> "backoff", cur |-> c, raised |-> FALSE]
    ELSE AfterReturn(drv, c, n)

\* the except clause of analyze_block: sleep and continue, or raise, which
\* no caller catches
AfterException(drv, c, n, attempt_no, retry_count) ==
    IF should_retry(attempt_no, retry_count)
    THEN [pipe_pc |-> "backoff", cur |-> c, raised |-> FALSE]
    ELSE [pipe_pc |-> "failed", cur |-> c, raised |-> TRUE]

---------------------------------------------------------------------------
(* Inputs of the VTT segmentation *)
Speakers == {NoSpeaker, "A", "B"}

\* (start_seconds, end_seconds) of a cue
CueTimes == {<<0, 0>>, <<600, 660>>, <<3700, 3760>>}

VTTEntry ==
    {[start_seconds |-> c[1], end_seconds |-> c[2], text |-> t, speaker |-> s] :
        c \in CueTimes, t \in Texts, s \in Speakers}


---------------------------------------------------------------------------
(* Properties of the VTT segmentation *)

Chunked == seg_pc = "chunked"

\* the emitted segments that contain entry i
Holders(i) == {b \in 1..Len(blocks) : i \in Range(blocks[b].entries)}

NoRepeat(s) == \A j, k \in 1..Len(s) : j # k => s[j] # s[k]

\* C1: every parsed entry is placed in exactly one emitted segment: none is
\* dropped and none appears in two segments (or twice in one).
C1_EveryEntryInExactlyOneSegment ==
    Chunked =>
        /\ \A i \in 1..Len(vtt_entries) : Cardinality(Holders(i)) = 1
        /\ \A b \in 1..Len(blocks) : NoRepeat(blocks[b].entries)

\* the entries are sorted, yet the last one is in no segment
C1_SortedEntryDropped ==
    /\ Chunked
    /\ \A i \in 1..Len(vtt_entries) - 1 :
           vtt_entries[i].start_seconds <= vtt_entries[i + 1].start_seconds
    /\ \E i \in 1..Len(vtt_entries) : Holders(i) = {}

\* a segment of one entry that alone is over the budget, counted as
\* _split_vtt_block counts it (with its speaker label)
SingleOversizedEntry(b) ==
    /\ Len(b.entries) = 1
    /\ count_tokens(<<EntryText(vtt_entries[b.entries[1]])>>) > MAX_TOKENS_PER_CHUNK

\* C2: every emitted segment has token_count(content) <= T, except a segment
\* made of a single entry whose own text already exceeds T.
C2_SegmentsWithinBudget ==
    Chunked =>
        \A b \in 1..Len(blocks) :
            \/ count_tokens(blocks[b].content) <= MAX_TOKENS_PER_CHUNK
            \/ SingleOversizedEntry(blocks[b])

\* k < k.1 < k.2 < k+1: order of block numbers <<k>> and <<k, n>>
NumberLess(m, n) ==
    \/ m[1] < n[1]
    \/ m[1] = n[1] /\ Len(m) = 1 /\ Len(n) = 2
    \/ m[1] = n[1] /\ Len(m) = 2 /\ Len(n) = 2 /\ m[2] < n[2]

NumbersIncrease ==
    /\ blocks # <<>> => blocks[1].block_number[1] = 1
    /\ \A b \in 1..Len(blocks) - 1 :
           NumberLess(blocks[b].block_number, blocks[b + 1].block_number)

EmissionIsChronological ==
    \A b, c \in 1..Len(blocks) :
        b < c =>
            \A i \in Range(blocks[b].entries), j \in Range(blocks[c].entries) :
                vtt_entries[i].start_seconds <= vtt_entries[j].start_seconds

\* C3: segment numbers start at 1 and strictly increase in emission order
\* (k.1, k.2, ... between k-1 and k+1), and emission order is the
\* chronological order of the entries the segments contain.
C3_NumbersIncreaseChronologically ==
    Chunked => NumbersIncrease /\ EmissionIsChronological

C3_NumbersHold == Chunked => NumbersIncrease

---------------------------------------------------------------------------
(* Inputs of the text-mode chunking *)
Timestamps == {NoTs, <<9, 0>>, <<9, 40>>, <<30, 75>>}

TextLine ==
    {[ts |-> ts, text |-> t] : ts \in Timestamps, t \in {"w", "near", "huge"}}
    \cup {[ts |-> NoTs, text |-> ""]}

\* 08:59:30 and 10:15:05 of one day, 00:00:10 of the next
ClockReadings == {32370, 36905, 86410}

---------------------------------------------------------------------------
(* Inputs of the aggregation.  A criterion score is drawn as [key, score,  *)
(* number of quotes]; its quotes are then <<block, position, j>>, so that  *)
(* every quote of the input is a different string.                         *)
UnknownKey == "unbekannt"

K1 == EVALUATION_CRITERIA[1]

K2 == EVALUATION_CRITERIA[2]

Draw(key, score, nq) == [criterion_key |-> key, score |-> score, nq |-> nq]

\* one criterion, every score, up to two quotes
ScoreDraws == {<<Draw(K1, sc, nq)>> : sc \in 1..5, nq \in 0..2}

\* score and number of quotes of a criterion in a block that lists several
ScoreQuotes == {<<2, 2>>, <<3, 0>>, <<4, 1>>, <<5, 2>>}

\* the keys a segment evaluation lists: the rubric, the rubric out of order,
\* a criterion missing, a key the rubric does not have
BlockShapes ==
    {<<>>, <<K1>>, <<K2>>, <<K1, K2>>, <<K2, K1>>, <<UnknownKey, K1>>, <<K1, UnknownKey>>}

BlockDraws ==
    UNION {{[c \in 1..Len(shape) |-> Draw(shape[c], f[c][1], f[c][2])] :
               f \in [1..Len(shape) -> ScoreQuotes]} : shape \in BlockShapes}

CriterionScore(d, b, c) ==
    [criterion_key |-> d.criterion_key, score |-> d.score,
     quotes |-> [j \in 1..d.nq |-> <<b, c, j>>]]

BlockAnalysis(draws, b) ==
    [block_number |-> b,
     criteria_scores |-> [c \in 1..Len(draws) |-> CriterionScore(draws[c], b, c)]]

Analyses(raw) == [b \in 1..Len(raw) |-> BlockAnalysis(raw[b], b)]

---------------------------------------------------------------------------
(* Inputs of the evaluation *)

\* the keys a response may have entries for
ResponseKeys == {K1, K2, UnknownKey}

\* scores of a response: 0, 2.5, 3.5, 4.5 and 7
ScoreValues == {Missing, Null, NotANumber, Number(0), Number(25), Number(35), Number(45), Number(70)}

QuoteValues == {Missing, Null, QuoteList(1), QuoteList(2)}

CriterionResults ==
    {[shape |-> "dict", score |-> sc, quotes |-> q] : sc \in ScoreValues, q \in QuoteValues}
    \cup {[shape |-> sh, score |-> Missing, quotes |-> Missing] : sh \in {"absent", "null"}}

\* the segments a response is parsed for: block 1 and sub-block 2.1
ParseBlocks ==
    {TimeBlock(<<1>>, <<0, 0>>, <<0, 30>>, <<>>, <<>>),
     TimeBlock(<<2, 1>>, <<0, 30, 1>>, <<0, 40, 1>>, <<>>, <<>>)}

---------------------------------------------------------------------------
(* Inputs of the chunking of a caption stream *)
MaxCaptions == 2

\* 00:10:00 to 00:11:00, 01:01:40 to 01:02:40, and a cue with a malformed end
CaptionTimings ==
    {<<<<0, 10, 0>>, <<0, 11, 0>>>>, <<<<1, 1, 40>>, <<1, 2, 40>>>>,
     <<<<0, 10, 0>>, MalformedTime>>}

Caption ==
    {[start |-> t[1], end |-> t[2], voice |-> v, text |-> x] :
        t \in CaptionTimings, v \in {NoSpeaker, "A"}, x \in {"w", "huge"}}

\* the transcript text that comes with the caption file
CaptionTexts ==
    {<<[ts |-> <<9, 0>>, text |-> "w"]>>,
     <<[ts |-> NoTs, text |-> "w"], [ts |-> <<9, 40>>, text |-> "near"]>>}

---------------------------------------------------------------------------
(* Inputs of a pipeline run *)
PipeCaption(timing, text) ==
    [start |-> timing[1], end |-> timing[2], voice |-> NoSpeaker, text |-> text]

EarlyCue == <<<<0, 10, 0>>, <<0, 11, 0>>>>

LateCue == <<<<1, 1, 40>>, <<1, 2, 40>>>>

\* caption streams: without header, without cues, with a malformed time,
\* of one segment, of two segments, of an oversized window and a second one
PipeContents ==
    {[header |-> FALSE, captions |-> <<>>],
     [header |-> TRUE, captions |-> <<>>],
     [header |-> TRUE, captions |-> <<PipeCaption(<<<<0, 10, 0>>, MalformedTime>>, "w")>>],
     [header |-> TRUE, captions |-> <<PipeCaption(EarlyCue, "w")>>],
     [header |-> TRUE, captions |-> <<PipeCaption(EarlyCue, "w"), PipeCaption(LateCue, "w")>>],
     [header |-> TRUE,
      captions |-> <<PipeCaption(EarlyCue, "huge"), PipeCaption(EarlyCue, "w"),
                     PipeCaption(LateCue, "w")>>]}

\* responses of the evaluator: every criterion scored, one criterion
\* missing, a score that is no number
PipeResponses ==
    {[k \in ResponseKeys |->
         IF k = UnknownKey THEN [shape |-> "absent", score |-> Missing, quotes |-> Missing]
         ELSE [shape |-> "dict", score |-> Number(45), quotes |-> QuoteList(1)]],
     [k \in ResponseKeys |->
         IF k = K1 THEN [shape |-> "dict", score |-> Number(25), quotes |-> QuoteList(2)]
         ELSE [shape |-> "absent", score |-> Missing, quotes |-> Missing]],
     [k \in ResponseKeys |->
         IF k = K1 THEN [shape |-> "dict", score |-> NotANumber, quotes |-> Missing]
         ELSE [shape |-> "absent", score |-> Missing, quotes |-> Missing]]}

\* exceptions of the API call that a later call may not repeat
TransientErrors == {"RateLimitError"}

\* exceptions of the API call that every repetition meets again
PermanentErrors == {"AuthenticationError"}

\* what one API call of analyze_block does
EvaluatorOutcomes ==
    {[kind |-> "response", response |-> r] : r \in PipeResponses}
    \cup {[kind |-> x,
            response |-> [k \in ResponseKeys |->
                             [shape |-> "absent", score |-> Missing, quotes |-> Missing]]] :
              x \in TransientErrors \cup PermanentErrors}

Drivers == {"_process_video", "analyze_blocks"}

---------------------------------------------------------------------------
(* api/webhook/process-async.py.  processing_tasks is the module's dict,   *)
(* a task id the place of its task in it.  A key a task's dict does not     *)
(* have is "absent".  The background thread of a task and the handler of a  *)
(* status request interleave between two statements; thread[t] names the    *)
(* statement the thread of task t executes next.                            *)
MaxTasks == 2

MaxRequests == 2

\* processing_tasks[task_id] = {'status': 'queued', 'created_at': ..., 'data': data}
QueuedTask == [status |-> "queued", progress |-> "", result |-> "absent", error |-> "absent"]

\* no status request is being handled
NoRequest == [pc |-> "idle", method |-> "", task_id |-> 0, status |-> ""]

\* the statements of process_video_async that report progress, and what
\* each is followed by
NextStatement(pc) ==
    CASE pc = "transcribe" -> "chunk"
      [] pc = "chunk" -> "analyze"
      [] pc = "analyze" -> "report"
      [] pc = "report" -> "store_status"

ProgressAfter(pc, progress) ==
    CASE pc = "transcribe" -> "Transcription complete"
      [] pc = "chunk" -> "Chunked into blocks"
      [] pc = "analyze" -> "Analyzed blocks"
      [] pc = "report" -> progress

\* response = {'task_id', 'status': task['status'], 'progress', 'created_at'}
\* was built; now "if task['status'] == 'completed': response.update(
\* task['result']) elif task['status'] == 'failed': response['error'] = ..."
\* and the answer.  task['result'] of a dict without that key raises
\* KeyError: do_POST answers 500 from its except clause, do_GET has none
\* and sends no answer (code 0).
StatusAnswer(req, task) ==
    IF task.status = "completed" /\ task.result = "absent"
    THEN [method |-> req.method, task_id |-> req.task_id,
          code |-> IF req.method = "POST" THEN 500 ELSE 0,
          status |-> "", result |-> "absent", raised |-> "KeyError"]
    ELSE [method |-> req.method, task_id |-> req.task_id, code |-> 200,
          status |-> req.status,
          result |-> IF task.status = "completed" THEN "merged" ELSE "absent",
          raised |-> ""]

\* 'Task not found'
NotFoundAnswer(method, task_id) ==
    [method |-> method, task_id |-> task_id, code |-> 404,
     status |-> "", result |-> "absent", raised |-> ""]

---------------------------------------------------------------------------
(* api/webhook/process-split.py.  A video is named by its URL; task_files   *)
(* maps a task id to what load_task returns for it ("none" if there is no   *)
(* file).  A thread of process_with_timeout is [task_id, pc, status,        *)
(* answered]: status is result['status'] of the thread's dict, answered     *)
(* says that the start request has answered 202 for it.                     *)
MaxVideos == 2

MaxStarts == 2

MaxRetrieves == 2

VideoUrls == 1..MaxVideos

\* hashlib.md5(video_url.encode()).hexdigest()[:12]; the URLs of VideoUrls
\* have different digests
task_id_of(video_url) == video_url + 100

TaskIds == {task_id_of(u) : u \in VideoUrls}

\* no task_id in the request
NoTaskId == 0

HandlerIdle == [pc |-> "idle", thread |-> 0]

\* result = {'status': 'timeout'}; thread.start()
StartedThread(task_id) ==
    [task_id |-> task_id, pc |-> "processing", status |-> "timeout", answered |-> FALSE]

SplitReply(kind, task_id, code, source) ==
    [kind |-> kind, task_id |-> task_id, code |-> code, source |-> source]

\* the retrieve branch of do_POST; processed says whether
\* process_video_now returned (TRUE) or raised
retrieve(files, task_id, has_video_url, processed) ==
    IF task_id = NoTaskId THEN SplitReply("retrieve", task_id, 400, "none")
    ELSE IF files[task_id] # "none" THEN SplitReply("retrieve", task_id, 200, "stored")
    ELSE IF ~has_video_url THEN SplitReply("retrieve", task_id, 404, "none")
    ELSE IF processed THEN SplitReply("retrieve", task_id, 200, "processed")
    ELSE SplitReply("retrieve", task_id, 500, "none")

---------------------------------------------------------------------------
(* api/webhook/process.py, api/tasks/process-video.py and                   *)
(* api/webhook/status.py.  A task id is the place of its task among the     *)
(* tasks created; redis_task[t] is the decoded JSON under task:{t},         *)
(* redis_result[t] says whether result:{t} is set.  worker[t] is [pc,       *)
(* raised_at]: the statement the handler of process-video executes next     *)
(* for task t and the statement of its try block that raised, if one did.   *)
(* The Redis calls themselves succeed and no key expires.                   *)
MaxQueued == 2

MaxStatusGets == 2

\* task_data = {'id', 'video_url', 'callback_url', 'status': 'queued', ...}
queued_task == [status |-> "queued", error |-> "absent"]

NoStatusGet == [pc |-> "idle", task_id |-> 0, status |-> "", error |-> ""]

\* status.py: json.dumps(task) of the task read, with 'result' added if the
\* task read was completed and result:{task_id} is set
status_answer(req, result) ==
    [task_id |-> req.task_id, code |-> 200, status |-> req.status, error |-> req.error,
     result |-> IF req.status = "completed" /\ result = "stored" THEN "stored" ELSE "absent"]

not_found_answer(task_id) ==
    [task_id |-> task_id, code |-> 404, status |-> "", error |-> "", result |-> "absent"]

---------------------------------------------------------------------------
(* Specifications *)
SegIdle == seg_pc = "off" /\ vtt_entries = <<>> /\ blocks = <<>>

TextIdle == text_pc = "off" /\ text_lines = <<>> /\ clock = 0 /\ runs = <<>>

AggIdle == agg_pc = "off" /\ block_analyses = <<>> /\ report = <<>>

ParseIdle == parse_pc = "off" /\ response = <<>> /\ parsed = <<>>

CapIdle == cap_pc = "off" /\ vtt_content = <<>> /\ cap_result = <<>>

PipeIdle ==
    /\ pipe_pc = "off"
    /\ driver = ""
    /\ cur = 0
    /\ attempt = 0
    /\ log = <<>>
    /\ failure = NoFailure

AnalyzerIdle == ParseIdle /\ CapIdle /\ PipeIdle

AsyncIdle ==
    /\ processing_tasks = <<>>
    /\ thread = <<>>
    /\ status_req = NoRequest
    /\ replies = <<>>

SplitIdle ==
    /\ task_files = <<>>
    /\ split_handler = HandlerIdle
    /\ bg = <<>>
    /\ split_replies = <<>>

QueueIdle ==
    /\ redis_task = <<>>
    /\ redis_result = <<>>
    /\ worker = <<>>
    /\ status_get = NoStatusGet
    /\ status_replies = <<>>

WebIdle == AsyncIdle /\ SplitIdle /\ QueueIdle

SegInit ==
    /\ seg_pc = "parsed"
    /\ \E n \in 0..MaxEntries : vtt_entries \in [1..n -> VTTEntry]
    /\ blocks = <<>>
    /\ TextIdle
    /\ AggIdle
    /\ AnalyzerIdle
    /\ WebIdle

ChunkFromVttContent ==
    /\ seg_pc = "parsed"
    /\ blocks' = chunk_from_vtt_content(vtt_entries)
    /\ seg_pc' = "chunked"
    /\ UNCHANGED <<vtt_entries, textVars, aggVars, parseVars, capVars, pipeVars, webVars>>

SegNext == ChunkFromVttContent

SpecSeg == SegInit /\ [][SegNext]_vars

TextInit ==
    /\ text_pc = "read"
    /\ text_lines \in SeqsUpTo(TextLine, MaxLines) \ {<<>>}
    /\ clock = 0
    /\ runs = <<>>
    /\ SegIdle
    /\ AggIdle
    /\ AnalyzerIdle
    /\ WebIdle

\* one call of chunk_transcription(content); the clock never runs backwards
ChunkTranscription ==
    /\ text_pc = "read"
    /\ Len(runs) < MaxRuns
    /\ \E now \in ClockReadings :
           /\ now >= clock
           /\ clock' = now
           /\ runs' = Append(runs, chunk_transcription(text_lines, now))
    /\ UNCHANGED <<text_pc, text_lines, segVars, aggVars, parseVars, capVars, pipeVars, webVars>>

TextNext == ChunkTranscription

SpecText == TextInit /\ [][TextNext]_vars

AggInit ==
    /\ agg_pc = "analyzed"
    /\ \E raw \in SeqsUpTo(ScoreDraws, MaxScores) \cup SeqsUpTo(BlockDraws, MaxBlocks) :
           block_analyses = Analyses(raw)
    /\ report = <<>>
    /\ SegIdle
    /\ TextIdle
    /\ AnalyzerIdle
    /\ WebIdle

CreateCompleteReport ==
    /\ agg_pc = "analyzed"
    /\ report' \in create_complete_report(block_analyses)
    /\ agg_pc' = "reported"
    /\ UNCHANGED <<block_analyses, segVars, textVars, parseVars, capVars, pipeVars, webVars>>

AggNext == CreateCompleteReport

SpecAgg == AggInit /\ [][AggNext]_vars

\* a caption stream handed to chunk_from_vtt_content, or given as the VTT
\* file next to a transcript text handed to chunk_transcription
CapInit ==
    /\ cap_pc = "read"
    /\ \E h \in BOOLEAN, n \in 0..MaxCaptions :
           \E c \in [1..n -> Caption] : vtt_content = [header |-> h, captions |-> c]
    /\ text_lines \in CaptionTexts
    /\ cap_result = <<>>
    /\ text_pc = "off"
    /\ clock = 0
    /\ runs = <<>>
    /\ SegIdle
    /\ AggIdle
    /\ ParseIdle
    /\ PipeIdle
    /\ WebIdle

ChunkFromVttContentCall ==
    /\ cap_pc = "read"
    /\ cap_result' = [raised |-> "", call |-> "chunk_from_vtt_content",
                      value |-> chunk_from_vtt_content_guarded(vtt_content)]
    /\ cap_pc' = "done"
    /\ UNCHANGED <<vtt_content, segVars, textVars, aggVars, parseVars, pipeVars, webVars>>

ChunkTranscriptionCall ==
    /\ cap_pc = "read"
    /\ \E now \in ClockReadings :
           cap_result' = [raised |-> "", call |-> "chunk_transcription",
                          value |-> chunk_transcription_with_vtt(text_lines, vtt_content, now)]
    /\ cap_pc' = "done"
    /\ UNCHANGED <<vtt_content, segVars, textVars, aggVars, parseVars, pipeVars, webVars>>

CapNext == ChunkFromVttContentCall \/ ChunkTranscriptionCall

SpecCaption == CapInit /\ [][CapNext]_vars

\* a run of the pipeline from the caption stream to the report
PipeInit ==
    /\ pipe_pc = "start"
    /\ driver \in Drivers
    /\ vtt_content \in PipeContents
    /\ cur = 0
    /\ attempt = 0
    /\ log = <<>>
    /\ failure = NoFailure
    /\ SegIdle
    /\ TextIdle
    /\ AggIdle
    /\ ParseIdle
    /\ WebIdle
    /\ cap_pc = "off"
    /\ cap_result = <<>>

\* blocks = chunker.chunk_from_vtt_content(vtt_content); without blocks
\* _process_video raises and analyze_blocks returns []
Segment ==
    /\ pipe_pc = "start"
    /\ blocks' = chunk_from_vtt_content_guarded(vtt_content)
    /\ log' = Append(log, Step("chunk", 0, 0, "", 0))
    /\ IF blocks' # <<>>
       THEN pipe_pc' = "call" /\ cur' = 1 /\ failure' = failure
       ELSE /\ cur' = cur
            /\ IF driver = "analyze_blocks"
               THEN pipe_pc' = "returned" /\ failure' = failure
               ELSE pipe_pc' = "failed" /\ failure' = NoBlocksFailure
    /\ UNCHANGED <<driver, attempt, seg_pc, vtt_entries, textVars, aggVars, parseVars, capVars, webVars>>

\* one pass of the loop of analyze_block for the segment cur: the API call
\* and what follows it up to the return, the raise or the start of the sleep
Attempt ==
    /\ pipe_pc = "call"
    /\ \E o \in EvaluatorOutcomes :
           LET result == attempt_result(o, blocks[cur])
               next == IF result.raised = ""
                       THEN AfterReturn(driver, cur, Len(blocks))
                       ELSE AfterException(driver, cur, Len(blocks), attempt,
                                           DEFAULT_RETRY_COUNT)
               called == Append(log, Step("call", cur, attempt,
                                          IF result.raised = "" THEN "ok" ELSE o.kind, 0))
           IN  /\ block_analyses' = IF result.raised = ""
                                     THEN append_analysis(block_analyses, result.value)
                                     ELSE block_analyses
               /\ log' = IF result.raised = "" /\ driver = "analyze_blocks"
                              /\ cur < Len(blocks)
                          THEN Append(called, Step("pause", cur, attempt, "", 1))
                          ELSE called
               /\ pipe_pc' = next.pipe_pc
               /\ cur' = next.cur
               /\ attempt' = IF next.pipe_pc = "call" THEN 0 ELSE attempt
               /\ failure' = IF next.raised
                              THEN analysis_failure(blocks[cur], DEFAULT_RETRY_COUNT)
                              ELSE failure
    /\ UNCHANGED <<driver, segVars, textVars, agg_pc, report, parseVars, capVars, webVars>>

\* sleep(wait_time); continue
Backoff ==
    /\ pipe_pc = "backoff"
    /\ log' = Append(log, Step("sleep", cur, attempt, "", wait_time(attempt)))
    /\ attempt' = attempt + 1
    /\ pipe_pc' = "call"
    /\ UNCHANGED <<driver, cur, failure, segVars, textVars, aggVars, parseVars, capVars, webVars>>

\* complete_report = aggregator.create_complete_report(block_analyses)
Aggregate ==
    /\ pipe_pc = "aggregate"
    /\ report' \in create_complete_report(block_analyses)
    /\ log' = Append(log, Step("aggregate", 0, 0, "", 0))
    /\ pipe_pc' = "reported"
    /\ UNCHANGED <<driver, cur, attempt, failure, segVars, textVars, agg_pc,
                   block_analyses, parseVars, capVars, webVars>>

PipeNext == Segment \/ Attempt \/ Backoff \/ Aggregate

SpecPipe == PipeInit /\ [][PipeNext]_vars

ParseInit ==
    /\ parse_pc = "received"
    /\ response \in [ResponseKeys -> CriterionResults]
    /\ parsed = <<>>
    /\ SegIdle
    /\ TextIdle
    /\ AggIdle
    /\ CapIdle
    /\ PipeIdle
    /\ WebIdle

ParseApiResponse ==
    /\ parse_pc = "received"
    /\ \E block \in ParseBlocks : parsed' = _parse_api_response(response, block)
    /\ parse_pc' = "parsed"
    /\ UNCHANGED <<response, segVars, textVars, aggVars, capVars, pipeVars, webVars>>

ParseNext == ParseApiResponse

SpecParse == ParseInit /\ [][ParseNext]_vars

PipelineIdle == SegIdle /\ TextIdle /\ AggIdle /\ AnalyzerIdle

AsyncInit ==
    /\ processing_tasks = <<>>
    /\ thread = <<>>
    /\ status_req = NoRequest
    /\ replies = <<>>
    /\ PipelineIdle
    /\ SplitIdle
    /\ QueueIdle

\* do_POST for a new video: the task is created and its thread started
StartRequest ==
    /\ status_req.pc = "idle"
    /\ Len(processing_tasks) < MaxTasks
    /\ processing_tasks' = Append(processing_tasks, QueuedTask)
    /\ thread' = Append(thread, "begin")
    /\ UNCHANGED <<status_req, replies, segVars, textVars, aggVars, parseVars, capVars, pipeVars, splitVars, queueVars>>

\* processing_tasks[task_id]['status'] = 'processing'
ThreadBegin(t) ==
    /\ thread[t] = "begin"
    /\ processing_tasks' = [processing_tasks EXCEPT ![t].status = "processing"]
    /\ thread' = [thread EXCEPT ![t] = "transcribe"]
    /\ UNCHANGED <<status_req, replies, segVars, textVars, aggVars, parseVars, capVars, pipeVars, splitVars, queueVars>>

\* a step of the processing returns
ThreadWork(t) ==
    /\ thread[t] \in {"transcribe", "chunk", "analyze", "report"}
    /\ processing_tasks' =
           [processing_tasks EXCEPT ![t].progress = ProgressAfter(thread[t], @)]
    /\ thread' = [thread EXCEPT ![t] = NextStatement(@)]
    /\ UNCHANGED <<status_req, replies, segVars, textVars, aggVars, parseVars, capVars, pipeVars, splitVars, queueVars>>

\* an import or a step of the processing raises
ThreadRaise(t) ==
    /\ thread[t] \in {"begin", "transcribe", "chunk", "analyze", "report"}
    /\ thread' = [thread EXCEPT ![t] = "fail_status"]
    /\ UNCHANGED <<processing_tasks, status_req, replies, segVars, textVars, aggVars,
                   parseVars, capVars, pipeVars, splitVars, queueVars>>

\* processing_tasks[task_id]['status'] = 'completed' (and 'completed_at')
ThreadStoreStatus(t) ==
    /\ thread[t] = "store_status"
    /\ processing_tasks' = [processing_tasks EXCEPT ![t].status = "completed"]
    /\ thread' = [thread EXCEPT ![t] = "store_result"]
    /\ UNCHANGED <<status_req, replies, segVars, textVars, aggVars, parseVars, capVars, pipeVars, splitVars, queueVars>>

\* processing_tasks[task_id]['result'] = {...}
ThreadStoreResult(t) ==
    /\ thread[t] = "store_result"
    /\ processing_tasks' = [processing_tasks EXCEPT ![t].result = "stored"]
    /\ thread' = [thread EXCEPT ![t] = "exit"]
    /\ UNCHANGED <<status_req, replies, segVars, textVars, aggVars, parseVars, capVars, pipeVars, splitVars, queueVars>>

\* except: processing_tasks[task_id]['status'] = 'failed'
ThreadFailStatus(t) ==
    /\ thread[t] = "fail_status"
    /\ processing_tasks' = [processing_tasks EXCEPT ![t].status = "failed"]
    /\ thread' = [thread EXCEPT ![t] = "fail_error"]
    /\ UNCHANGED <<status_req, replies, segVars, textVars, aggVars, parseVars, capVars, pipeVars, splitVars, queueVars>>

\* except: processing_tasks[task_id]['error'] = str(e) (and 'completed_at')
ThreadFailError(t) ==
    /\ thread[t] = "fail_error"
    /\ processing_tasks' = [processing_tasks EXCEPT ![t].error = "stored"]
    /\ thread' = [thread EXCEPT ![t] = "exit"]
    /\ UNCHANGED <<status_req, replies, segVars, textVars, aggVars, parseVars, capVars, pipeVars, splitVars, queueVars>>

\* a status request (POST /api/webhook/status or GET /api/webhook/status/id)
\* up to the response it builds from task['status']
StatusRequest ==
    /\ status_req.pc = "idle"
    /\ Len(replies) < MaxRequests
    /\ \E method \in {"POST", "GET"}, task_id \in 1..MaxTasks :
           IF task_id > Len(processing_tasks)
           THEN /\ replies' = Append(replies, NotFoundAnswer(method, task_id))
                /\ UNCHANGED status_req
           ELSE /\ status_req' = [pc |-> "built", method |-> method, task_id |-> task_id,
                                  status |-> processing_tasks[task_id].status]
                /\ UNCHANGED replies
    /\ UNCHANGED <<processing_tasks, thread, segVars, textVars, aggVars, parseVars,
                   capVars, pipeVars, splitVars, queueVars>>

\* the rest of the status request: the branch on task['status'] and the answer
StatusBranch ==
    /\ status_req.pc = "built"
    /\ replies' = Append(replies, StatusAnswer(status_req, processing_tasks[status_req.task_id]))
    /\ status_req' = NoRequest
    /\ UNCHANGED <<processing_tasks, thread, segVars, textVars, aggVars, parseVars,
                   capVars, pipeVars, splitVars, queueVars>>

AsyncNext ==
    \/ StartRequest
    \/ StatusRequest
    \/ StatusBranch
    \/ \E t \in 1..Len(thread) :
           \/ ThreadBegin(t)
           \/ ThreadWork(t)
           \/ ThreadRaise(t)
           \/ ThreadStoreStatus(t)
           \/ ThreadStoreResult(t)
           \/ ThreadFailStatus(t)
           \/ ThreadFailError(t)

SpecAsync == AsyncInit /\ [][AsyncNext]_vars

SplitInit ==
    /\ task_files = [t \in TaskIds |-> "none"]
    /\ split_handler = HandlerIdle
    /\ bg = <<>>
    /\ split_replies = <<>>
    /\ PipelineIdle
    /\ AsyncIdle
    /\ QueueIdle

\* do_POST with a video URL, up to thread.join(timeout): a task already
\* completed is answered from its file, otherwise process_with_timeout
\* starts the thread
StartArrive ==
    /\ split_handler.pc = "idle"
    /\ Cardinality({i \in 1..Len(split_replies) : split_replies[i].kind = "start"})
           < MaxStarts
    /\ \E video_url \in VideoUrls :
           LET task_id == task_id_of(video_url)
           IN  IF task_files[task_id] = "completed"
               THEN /\ split_replies' =
                           Append(split_replies, SplitReply("start", task_id, 200, "stored"))
                    /\ UNCHANGED <<bg, split_handler>>
               ELSE /\ bg' = Append(bg, StartedThread(task_id))
                    /\ split_handler' = [pc |-> "joining", thread |-> Len(bg) + 1]
                    /\ UNCHANGED split_replies
    /\ UNCHANGED <<task_files, segVars, textVars, aggVars, parseVars, capVars, pipeVars, asyncVars, queueVars>>

\* the thread: result['data'] = self.process_video_now(data)
BgData(k) ==
    /\ k <= Len(bg)
    /\ bg[k].pc = "processing"
    /\ bg' = [bg EXCEPT ![k].pc = "has_data"]
    /\ UNCHANGED <<task_files, split_handler, split_replies, segVars, textVars, aggVars,
                   parseVars, capVars, pipeVars, asyncVars, queueVars>>

\* the thread: result['status'] = 'completed'
BgCompleted(k) ==
    /\ k <= Len(bg)
    /\ bg[k].pc = "has_data"
    /\ bg' = [bg EXCEPT ![k].pc = "exit", ![k].status = "completed"]
    /\ UNCHANGED <<task_files, split_handler, split_replies, segVars, textVars, aggVars,
                   parseVars, capVars, pipeVars, asyncVars, queueVars>>

\* the thread: process_video_now raises; result['status'] = 'error'
BgError(k) ==
    /\ k <= Len(bg)
    /\ bg[k].pc = "processing"
    /\ bg' = [bg EXCEPT ![k].pc = "exit", ![k].status = "error"]
    /\ UNCHANGED <<task_files, split_handler, split_replies, segVars, textVars, aggVars,
                   parseVars, capVars, pipeVars, asyncVars, queueVars>>

\* thread.join(timeout) returns, because the thread ended or the 25 seconds
\* passed: a result is saved and answered 200, anything else is answered 202
JoinReturns ==
    /\ split_handler.pc = "joining"
    /\ LET k == split_handler.thread
           task_id == bg[k].task_id
       IN  IF bg[k].status = "completed"
           THEN /\ task_files' = [task_files EXCEPT ![task_id] = "completed"]
                /\ split_replies' =
                       Append(split_replies, SplitReply("start", task_id, 200, "processed"))
                /\ UNCHANGED bg
           ELSE /\ split_replies' =
                       Append(split_replies, SplitReply("start", task_id, 202, "none"))
                /\ bg' = [bg EXCEPT ![k].answered = TRUE]
                /\ UNCHANGED task_files
    /\ split_handler' = HandlerIdle
    /\ UNCHANGED <<segVars, textVars, aggVars, parseVars, capVars, pipeVars, asyncVars, queueVars>>

\* do_POST with action 'retrieve' or a task_id
Retrieve ==
    /\ split_handler.pc = "idle"
    /\ Cardinality({i \in 1..Len(split_replies) : split_replies[i].kind = "retrieve"})
           < MaxRetrieves
    /\ \E task_id \in TaskIds \cup {NoTaskId}, has_video_url \in BOOLEAN, processed \in BOOLEAN :
           split_replies' =
               Append(split_replies, retrieve(task_files, task_id, has_video_url, processed))
    /\ UNCHANGED <<task_files, split_handler, bg, segVars, textVars, aggVars, parseVars,
                   capVars, pipeVars, asyncVars, queueVars>>

SplitNext ==
    \/ StartArrive
    \/ JoinReturns
    \/ Retrieve
    \/ \E k \in 1..MaxStarts : BgData(k) \/ BgCompleted(k) \/ BgError(k)

SpecSplit == SplitInit /\ [][SplitNext]_vars

\* the handler's join returns after at most the timeout, and a started
\* thread runs to its end; no request has to arrive
SpecSplitFair ==
    /\ SpecSplit
    /\ WF_vars(JoinReturns)
    /\ \A k \in 1..MaxStarts : WF_vars(BgData(k) \/ BgCompleted(k) \/ BgError(k))

QueueInit ==
    /\ redis_task = <<>>
    /\ redis_result = <<>>
    /\ worker = <<>>
    /\ status_get = NoStatusGet
    /\ status_replies = <<>>
    /\ PipelineIdle
    /\ AsyncIdle
    /\ SplitIdle

\* process.py do_POST: the task is stored as 'queued' and process-video is
\* posted the task id; a failure of that post is logged and ignored
Submit ==
    /\ Len(redis_task) < MaxQueued
    /\ redis_task' = Append(redis_task, queued_task)
    /\ redis_result' = Append(redis_result, "none")
    /\ \E pc \in {"triggered", "lost"} :
           worker' = Append(worker, [pc |-> pc, raised_at |-> ""])
    /\ UNCHANGED <<status_get, status_replies, segVars, textVars, aggVars, parseVars, capVars, pipeVars, asyncVars, splitVars>>

\* process-video do_POST: task['status'] = 'processing'; redis.set(task:...)
WorkerStart(t) ==
    /\ worker[t].pc = "triggered"
    /\ redis_task' = [redis_task EXCEPT ![t].status = "processing"]
    /\ worker' = [worker EXCEPT ![t].pc = "processing"]
    /\ UNCHANGED <<redis_result, status_get, status_replies, segVars, textVars, aggVars, parseVars, capVars, pipeVars, asyncVars, splitVars>>

\* result = self._process_video(...) returns
WorkerProcessed(t) ==
    /\ worker[t].pc = "processing"
    /\ worker' = [worker EXCEPT ![t].pc = "store_result"]
    /\ UNCHANGED <<redis_task, redis_result, status_get, status_replies, segVars, textVars, aggVars, parseVars, capVars, pipeVars, asyncVars, splitVars>>

\* redis.set(f"result:{task_id}", json.dumps(result))
WorkerStoreResult(t) ==
    /\ worker[t].pc = "store_result"
    /\ redis_result' = [redis_result EXCEPT ![t] = "stored"]
    /\ worker' = [worker EXCEPT ![t].pc = "store_status"]
    /\ UNCHANGED <<redis_task, status_get, status_replies, segVars, textVars, aggVars, parseVars, capVars, pipeVars, asyncVars, splitVars>>

\* task['status'] = 'completed'; redis.set(task:...)
WorkerStoreStatus(t) ==
    /\ worker[t].pc = "store_status"
    /\ redis_task' = [redis_task EXCEPT ![t].status = "completed"]
    /\ worker' = [worker EXCEPT ![t].pc = "respond"]
    /\ UNCHANGED <<redis_result, status_get, status_replies, segVars, textVars, aggVars, parseVars, capVars, pipeVars, asyncVars, splitVars>>

\* the callback is sent and the 200 response written
WorkerRespond(t) ==
    /\ worker[t].pc = "respond"
    /\ worker' = [worker EXCEPT ![t].pc = "done"]
    /\ UNCHANGED <<redis_task, redis_result, status_get, status_replies, segVars, textVars, aggVars, parseVars, capVars, pipeVars, asyncVars, splitVars>>

\* a statement of the try block raises: _process_video, or the writing of
\* the response to the connection process.py has given up after 5 seconds
WorkerRaises(t) ==
    /\ worker[t].pc \in {"processing", "respond"}
    /\ worker' = [worker EXCEPT ![t].pc = "fail", ![t].raised_at = worker[t].pc]
    /\ UNCHANGED <<redis_task, redis_result, status_get, status_replies, segVars, textVars, aggVars, parseVars, capVars, pipeVars, asyncVars, splitVars>>

\* except: task['status'] = 'failed'; task['error'] = str(e);
\* redis.set(task:...); the error callback; raise (answered 500)
WorkerFail(t) ==
    /\ worker[t].pc = "fail"
    /\ redis_task' = [redis_task EXCEPT ![t].status = "failed", ![t].error = "recorded"]
    /\ worker' = [worker EXCEPT ![t].pc = "done"]
    /\ UNCHANGED <<redis_result, status_get, status_replies, segVars, textVars, aggVars, parseVars, capVars, pipeVars, asyncVars, splitVars>>

\* status.py do_GET up to task = json.loads(redis.get(task:...))
QueueStatusGet ==
    /\ status_get.pc = "idle"
    /\ Len(status_replies) < MaxStatusGets
    /\ \E task_id \in 1..MaxQueued :
           IF task_id > Len(redis_task)
           THEN /\ status_replies' = Append(status_replies, not_found_answer(task_id))
                /\ UNCHANGED status_get
           ELSE /\ status_get' = [pc |-> "read", task_id |-> task_id,
                                  status |-> redis_task[task_id].status,
                                  error |-> redis_task[task_id].error]
                /\ UNCHANGED status_replies
    /\ UNCHANGED <<redis_task, redis_result, worker, segVars, textVars, aggVars, parseVars, capVars, pipeVars, asyncVars, splitVars>>

\* status.py do_GET: the result is read if the task read was completed,
\* and the task is answered
QueueStatusAnswer ==
    /\ status_get.pc = "read"
    /\ status_replies' =
           Append(status_replies, status_answer(status_get, redis_result[status_get.task_id]))
    /\ status_get' = NoStatusGet
    /\ UNCHANGED <<redis_task, redis_result, worker, segVars, textVars, aggVars, parseVars, capVars, pipeVars, asyncVars, splitVars>>

QueueNext ==
    \/ Submit
    \/ QueueStatusGet
    \/ QueueStatusAnswer
    \/ \E t \in 1..Len(worker) :
           \/ WorkerStart(t)
           \/ WorkerProcessed(t)
           \/ WorkerStoreResult(t)
           \/ WorkerStoreStatus(t)
           \/ WorkerRespond(t)
           \/ WorkerRaises(t)
           \/ WorkerFail(t)

SpecQueue == QueueInit /\ [][QueueNext]_vars

---------------------------------------------------------------------------
(* Properties of the text-mode chunking *)

\* C4: segmenting the same transcript twice (same D, same T) yields the same
\* sequence of segments: same numbers, same start/end labels, same content.
C4_SegmentationDeterministic ==
    \A i, j \in 1..Len(runs) : runs[i] = runs[j]

\* without a timestamp that is no time of day the two runs agree
C4_ValidTimestampsDeterministic ==
    (\A k \in 1..Len(text_lines) :
        text_lines[k].ts = NoTs \/ (text_lines[k].ts[1] <= 23 /\ text_lines[k].ts[2] <= 59))
    => C4_SegmentationDeterministic

---------------------------------------------------------------------------
(* Properties of the aggregation, stated on the input list and the report  *)

Reported == agg_pc = "reported" /\ report.raised = ""

Criteria == report.value.aggregated_analysis.criteria_scores

\* where the segment evaluations score a key: <<segment, position>>
PositionsOf(key) ==
    UNION {{<<b, c>> : c \in {c \in 1..Len(block_analyses[b].criteria_scores) :
                                block_analyses[b].criteria_scores[c].criterion_key = key}} :
              b \in 1..Len(block_analyses)}

ScoreAt(p) == block_analyses[p[1]].criteria_scores[p[2]].score

RECURSIVE SumOver(_)
SumOver(P) ==
    IF P = {} THEN 0
    ELSE LET p == CHOOSE x \in P : TRUE IN ScoreAt(p) + SumOver(P \ {p})

\* the quotes the segment evaluations give for a key
QuotesOf(key) ==
    UNION {Range(block_analyses[p[1]].criteria_scores[p[2]].quotes) : p \in PositionsOf(key)}

\* quote <<b, c, j>> comes before <<b2, c2, j2>> in the input
Before(q, r) ==
    \/ q[1] < r[1]
    \/ q[1] = r[1] /\ q[2] < r[2]
    \/ q[1] = r[1] /\ q[2] = r[2] /\ q[3] < r[3]

\* kept is the first Len(kept) quotes of the key, in input order
IsLeadingQuotes(kept, key) ==
    /\ \A i \in 1..Len(kept) : kept[i] \in QuotesOf(key)
    /\ \A i \in 1..Len(kept) - 1 : Before(kept[i], kept[i + 1])
    /\ \A i \in 1..Len(kept) : \A q \in QuotesOf(key) : Before(q, kept[i]) => q \in Range(kept)

\* C5: for a non-empty list of segment evaluations the consolidated
\* criteria are exactly the rubric's keys, each once, in rubric order, even
\* when a segment evaluation lacks a criterion.
C5_CriteriaAreTheRubric ==
    (Reported /\ block_analyses # <<>>) =>
        [k \in 1..Len(Criteria) |-> Criteria[k].criterion_key] = EVALUATION_CRITERIA

\* the mean n / d to one decimal, a tie upwards, in tenths
HalfUpTenths(n, d) == (20 * n + d) \div (2 * d)

\* the mean n / d to the nearest integer, a tie upwards
HalfUpInteger(n, d) == (2 * n + d) \div (2 * d)

\* C6: a consolidated score is the mean of the criterion's per-segment
\* scores rounded to one decimal, a tie rounded half-up (2.25 gives 2.3).
C6_AverageRoundedHalfUp ==
    Reported =>
        \A k \in 1..Len(Criteria) :
            LET P == PositionsOf(Criteria[k].criterion_key)
            IN  Criteria[k].score = HalfUpTenths(SumOver(P), Cardinality(P))

\* C7: the traffic light is the table value of the criterion's average
\* rounded to the nearest integer, a tie rounded up (2.5 is yellow).
C7_TrafficLightOfHalfUpAverage ==
    Reported =>
        \A k \in 1..Len(Criteria) :
            LET P == PositionsOf(Criteria[k].criterion_key)
            IN  Criteria[k].traffic_light
                    = TRAFFIC_LIGHTS[HalfUpInteger(SumOver(P), Cardinality(P))]

KeepsLeading(c, limit) ==
    /\ Len(c.quotes) = Min(limit, Cardinality(QuotesOf(c.criterion_key)))
    /\ IsLeadingQuotes(c.quotes, c.criterion_key)

\* C8 as claimed: with the nearest-integer value used for the traffic light
\* <= 3 a criterion keeps its first min(2, n) quotes, otherwise its first
\* min(1, n); never more than 2.
C8_QuotesByTrafficLightValue ==
    Reported =>
        \A k \in 1..Len(Criteria) :
            /\ IF PyRound(Criteria[k].score, 10) <= 3
               THEN KeepsLeading(Criteria[k], 2)
               ELSE KeepsLeading(Criteria[k], 1)
            /\ Len(Criteria[k].quotes) <= 2

\* C8 amended: with the consolidated score (the average rounded to one
\* decimal) <= 3.0 a criterion keeps its first min(2, n) quotes, otherwise
\* its first min(1, n); never more than 2.
C8_QuotesByConsolidatedScore ==
    Reported =>
        \A k \in 1..Len(Criteria) :
            /\ IF Criteria[k].score <= 30
               THEN KeepsLeading(Criteria[k], 2)
               ELSE KeepsLeading(Criteria[k], 1)
            /\ Len(Criteria[k].quotes) <= 2

\* a score of 3.3 (light value 3) with several quotes collected keeps one
C8_Witness ==
    /\ Reported
    /\ \E k \in 1..Len(Criteria) :
           /\ Criteria[k].score > 30
           /\ PyRound(Criteria[k].score, 10) = 3
           /\ Cardinality(QuotesOf(Criteria[k].criterion_key)) >= 2
           /\ Len(Criteria[k].quotes) = 1

\* C9: the quotes kept for a criterion are a prefix of the concatenation of
\* its per-segment quotes, segments in input order and quotes in listed
\* order; quotes are never re-ordered.
C9_QuotesArePrefixInInputOrder ==
    Reported =>
        \A k \in 1..Len(Criteria) :
            IsLeadingQuotes(Criteria[k].quotes, Criteria[k].criterion_key)

\* two quotes are kept that come from two segment evaluations
C9_Witness ==
    /\ Reported
    /\ \E k \in 1..Len(Criteria) :
           /\ Len(Criteria[k].quotes) = 2
           /\ Criteria[k].quotes[1][1] # Criteria[k].quotes[2][1]

Abs(x) == IF x < 0 THEN -x ELSE x

\* C10: for a non-empty input the overall score is the unweighted mean of
\* the consolidated per-criterion scores rounded to one decimal: it is a
\* tenth nearest to sum / count, each criterion counted once.
C10_OverallIsMeanOfCriteria ==
    (Reported /\ block_analyses # <<>>) =>
        /\ report.value.overall_score = report.value.aggregated_analysis.overall_score
        /\ 2 * Abs(report.value.overall_score * Len(Criteria) - SumScores(Criteria))
               <= Len(Criteria)

\* two criteria, one scored by two segments and one by a single segment
C10_Witness ==
    /\ Reported
    /\ Len(Criteria) = 2
    /\ Cardinality(PositionsOf(Criteria[1].criterion_key))
           # Cardinality(PositionsOf(Criteria[2].criterion_key))
    /\ Criteria[1].score # Criteria[2].score

\* the places of a key in the rubric's declaration order
RubricPlaces(key) == {i \in 1..Len(EVALUATION_CRITERIA) : EVALUATION_CRITERIA[i] = key}

\* the key whose criterion score the segment evaluations list first
FirstMetKey ==
    LET b == CHOOSE b \in 1..Len(block_analyses) :
                 /\ block_analyses[b].criteria_scores # <<>>
                 /\ \A a \in 1..(b - 1) : block_analyses[a].criteria_scores = <<>>
    IN  block_analyses[b].criteria_scores[1].criterion_key

\* C11: the consolidated criteria are output in rubric declaration order
\* whatever order the keys were first met in the segment evaluations, and
\* every key that is not in the rubric comes after all rubric keys.
C11_RubricOrderUnknownLast ==
    Reported =>
        \A j, k \in 1..Len(Criteria) :
            (j < k /\ RubricPlaces(Criteria[k].criterion_key) # {}) =>
                \E m \in RubricPlaces(Criteria[j].criterion_key) :
                    \A n \in RubricPlaces(Criteria[k].criterion_key) : m < n

\* the key met first is not in the rubric and is output third, after the
\* two rubric keys, of which the second was met before the first
C11_Witness ==
    /\ Reported
    /\ Len(Criteria) = 3
    /\ RubricPlaces(FirstMetKey) = {}
    /\ Criteria[3].criterion_key = FirstMetKey
    /\ \E b \in 1..Len(block_analyses) :
           /\ Len(block_analyses[b].criteria_scores) = 2
           /\ block_analyses[b].criteria_scores[1].criterion_key = EVALUATION_CRITERIA[2]
           /\ block_analyses[b].criteria_scores[2].criterion_key = EVALUATION_CRITERIA[1]

\* C12: aggregating zero segment evaluations raises no exception and
\* returns a report with overall score 0.0, an empty criteria list, the
\* no-data marker and a segment count of 0.
C12_EmptyInputGivesEmptyReport ==
    (agg_pc = "reported" /\ block_analyses = <<>>) =>
        /\ report.raised = ""
        /\ report.value.overall_score = 0
        /\ report.value.aggregated_analysis.overall_score = 0
        /\ report.value.aggregated_analysis.criteria_scores = <<>>
        /\ report.value.aggregated_analysis.strengths
               = <<"Keine Analyse moeglich - keine Daten verfuegbar">>
        /\ report.value.block_analyses = <<>>
        /\ report.value.metadata.total_blocks = 0

\* the report of an empty list of segment evaluations has been made
C12_Witness ==
    /\ agg_pc = "reported"
    /\ block_analyses = <<>>
    /\ report # <<>>

---------------------------------------------------------------------------
(* Properties of the splitting of an oversized window *)

\* the text of entry i alone exceeds T
OwnTextExceeds(i) == TextTokens(vtt_entries[i].text) > MAX_TOKENS_PER_CHUNK

\* the start of the window entry i falls into
WindowStart(i) ==
    (vtt_entries[i].start_seconds \div (CHUNK_DURATION_MINUTES * 60))
        * (CHUNK_DURATION_MINUTES * 60)

\* the window of entry i is one the grouping loop reaches
WindowWalked(i) == WindowStart(i) < vtt_entries[Len(vtt_entries)].end_seconds

\* C13: within a window that exceeds T, an entry whose own text alone
\* exceeds T is never split: it is emitted whole as a sub-segment that
\* contains that entry and no other, wherever it sits in the window.
C13_OversizedEntryEmittedWhole ==
    Chunked =>
        \A i \in 1..Len(vtt_entries) :
            (OwnTextExceeds(i) /\ WindowWalked(i)) =>
                /\ Cardinality(Holders(i)) = 1
                /\ \A b \in Holders(i) :
                       /\ Len(blocks[b].block_number) = 2
                       /\ blocks[b].entries = <<i>>
                       /\ Len(blocks[b].content) = 1
                       /\ blocks[b].content[1].text = vtt_entries[i].text
                       /\ blocks[b].content[1].prefix = vtt_entries[i].speaker

\* three entries of one window, the middle one oversized, emitted as three
\* sub-segments
C13_Witness ==
    /\ Chunked
    /\ Len(vtt_entries) = 3
    /\ WindowStart(1) = WindowStart(2)
    /\ WindowStart(2) = WindowStart(3)
    /\ OwnTextExceeds(2)
    /\ ~OwnTextExceeds(1)
    /\ ~OwnTextExceeds(3)
    /\ Len(blocks) = 3
    /\ blocks[2].entries = <<2>>

---------------------------------------------------------------------------
(* Properties of the segmentation of unsorted entries *)

\* the entries in non-decreasing start_seconds order, equal starts kept in
\* list order
RECURSIVE InsertByStart(_, _)
InsertByStart(sorted, e) ==
    IF sorted = <<>> THEN <<e>>
    ELSE IF e.start_seconds < sorted[Len(sorted)].start_seconds
         THEN Append(InsertByStart(SubSeq(sorted, 1, Len(sorted) - 1), e),
                     sorted[Len(sorted)])
         ELSE Append(sorted, e)

RECURSIVE SortedByStart(_)
SortedByStart(s) ==
    IF s = <<>> THEN <<>>
    ELSE InsertByStart(SortedByStart(SubSeq(s, 1, Len(s) - 1)), s[Len(s)])

\* what a segment shows: number, labels and content
Shown(bs) ==
    [b \in 1..Len(bs) |->
        <<bs[b].block_number, bs[b].start_time, bs[b].end_time, bs[b].content>>]

\* C14: the segmenter tolerates unsorted input: the segments of any
\* permutation of the entries are the segments of the entries sorted by
\* start_seconds, and within each segment the entries are concatenated in
\* non-decreasing start_seconds order.
C14_UnsortedInputTolerated ==
    Chunked =>
        /\ Shown(blocks) = Shown(chunk_from_vtt_content(SortedByStart(vtt_entries)))
        /\ \A b \in 1..Len(blocks) :
               \A j \in 1..Len(blocks[b].entries) - 1 :
                   vtt_entries[blocks[b].entries[j]].start_seconds
                       <= vtt_entries[blocks[b].entries[j + 1]].start_seconds

---------------------------------------------------------------------------
(* Properties of the parsing of an evaluator response *)

Built == parse_pc = "parsed" /\ parsed.raised = ""

\* C15: every segment evaluation built from an evaluator response contains
\* exactly one CriterionScore per rubric key, in rubric order, whatever
\* subset of criteria the response contains; a criterion missing from the
\* response is filled with the neutral default score 3 and no quotes.
C15_OneScorePerRubricKey ==
    Built =>
        /\ [c \in 1..Len(parsed.value.criteria_scores) |->
               parsed.value.criteria_scores[c].criterion_key] = EVALUATION_CRITERIA
        /\ \A c \in 1..Len(EVALUATION_CRITERIA) :
               response[EVALUATION_CRITERIA[c]].shape = "absent" =>
                   \E d \in 1..Len(parsed.value.criteria_scores) :
                       /\ parsed.value.criteria_scores[d].criterion_key = EVALUATION_CRITERIA[c]
                       /\ parsed.value.criteria_scores[d].score = 3
                       /\ parsed.value.criteria_scores[d].quotes = <<>>

\* the response scores the first rubric key and a key outside the rubric,
\* and has no entry for the second rubric key
C15_Witness ==
    /\ Built
    /\ response[EVALUATION_CRITERIA[1]].shape = "dict"
    /\ response[EVALUATION_CRITERIA[1]].score = Number(70)
    /\ response[EVALUATION_CRITERIA[2]].shape = "absent"
    /\ response[UnknownKey].shape = "dict"
    /\ Len(parsed.value.criteria_scores) = 2
    /\ parsed.value.criteria_scores[1].score = 5

---------------------------------------------------------------------------
(* Properties of the chunking of a malformed caption stream *)

\* the caption stream has no well-formed header or a cue with a malformed time
Unparsable ==
    \/ ~vtt_content.header
    \/ \E i \in 1..Len(vtt_content.captions) :
           MalformedTime \in {vtt_content.captions[i].start, vtt_content.captions[i].end}

\* C20: when parsing the caption stream fails, segmentation aborts with an
\* error and returns no segments: it neither returns an empty segment list
\* as if the input were empty nor falls back to another chunking mode.
C20_ParseFailureAborts ==
    (cap_pc = "done" /\ Unparsable) => cap_result.raised # ""

\* the entry points never raise, whatever the caption stream
C20_NeverRaises == cap_pc = "done" => cap_result.raised = ""

---------------------------------------------------------------------------
(* Properties of a pipeline run, stated on the log of its steps *)

\* the places in the log of the API calls for segment b
CallsOf(b) == {i \in 1..Len(log) : log[i].step = "call" /\ log[i].block = b}

FailedCallsOf(b) == {i \in CallsOf(b) : log[i].outcome # "ok"}

\* the step at place j is a further attempt or a wait for segment b
RetriesAt(j, b) == log[j].block = b /\ log[j].step \in {"call", "sleep"}

\* C16: analyze_block makes at most retry_count attempts for a segment: it
\* returns the result of the first successful attempt without further
\* attempts, waits a backoff only between a failed attempt and the next
\* attempt, and after retry_count consecutive failed attempts it stops and
\* raises a failure naming the segment.
C16_BoundedRetriesWithBackoff ==
    /\ \A b \in 1..Len(blocks) : Cardinality(CallsOf(b)) <= DEFAULT_RETRY_COUNT
    /\ \A i \in 1..Len(log) :
           (log[i].step = "call" /\ log[i].outcome = "ok") =>
               \A j \in (i + 1)..Len(log) : ~RetriesAt(j, log[i].block)
    /\ \A i \in 1..Len(log) :
           log[i].step = "sleep" =>
               /\ i > 1
               /\ log[i - 1].step = "call"
               /\ log[i - 1].outcome # "ok"
               /\ log[i - 1].block = log[i].block
               /\ log[i - 1].attempt = log[i].attempt
               /\ log[i].attempt < DEFAULT_RETRY_COUNT - 1
               /\ log[i].wait = 2 ^ log[i].attempt
               /\ IF i < Len(log)
                  THEN /\ log[i + 1].step = "call"
                       /\ log[i + 1].block = log[i].block
                       /\ log[i + 1].attempt = log[i].attempt + 1
                  ELSE pipe_pc = "call"
    /\ \A b \in 1..Len(blocks) :
           Cardinality(FailedCallsOf(b)) = DEFAULT_RETRY_COUNT =>
               /\ pipe_pc = "failed"
               /\ cur = b
               /\ log[Len(log)].step = "call"
               /\ failure.type = "Exception"
               /\ failure.block_number = blocks[b].block_number
               /\ failure.attempts = DEFAULT_RETRY_COUNT

\* the first segment is evaluated at its third attempt, after two waits,
\* and the second segment fails three times
C16_Witness ==
    /\ pipe_pc = "failed"
    /\ cur = 2
    /\ Cardinality(CallsOf(1)) = 3
    /\ Cardinality(FailedCallsOf(1)) = 2
    /\ Cardinality(FailedCallsOf(2)) = 3
    /\ Cardinality({i \in 1..Len(log) : log[i].step = "sleep"}) = 4
    /\ failure.block_number = blocks[2].block_number

\* C17: evaluator errors are distinguished by kind: a permanent evaluator
\* error for a segment is not retried and is reported to the caller as
\* distinct from a transient error that exhausted its retries.
C17_PermanentErrorNotRetried ==
    /\ \A i \in 1..Len(log) :
           (log[i].step = "call" /\ log[i].outcome \in PermanentErrors) =>
               /\ \A j \in (i + 1)..Len(log) : ~RetriesAt(j, log[i].block)
               /\ pipe_pc = "failed"
    /\ \A i \in 1..Len(log) :
           (pipe_pc = "failed" /\ i = Len(log) /\ log[i].outcome \in PermanentErrors) =>
               failure # analysis_failure(blocks[log[i].block], DEFAULT_RETRY_COUNT)

\* every failed call but the last of a segment is followed by a wait and a
\* further call, whatever the exception was
C17_EveryErrorRetried ==
    \A i \in 1..Len(log) :
        (log[i].step = "call" /\ log[i].outcome # "ok"
            /\ log[i].attempt < DEFAULT_RETRY_COUNT - 1) =>
                IF i < Len(log) THEN log[i + 1].step = "sleep" ELSE pipe_pc = "backoff"

\* C18: if the evaluation of any one segment fails after its retries, the
\* pipeline produces no report at all: aggregation is never run on the
\* segments that succeeded, so no segment's contribution is missing from a
\* produced report.
C18_FailedSegmentGivesNoReport ==
    /\ pipe_pc = "failed" =>
           /\ report = <<>>
           /\ \A i \in 1..Len(log) : log[i].step # "aggregate"
    /\ (\E b \in 1..Len(blocks) : Cardinality(FailedCallsOf(b)) = DEFAULT_RETRY_COUNT) =>
           /\ pipe_pc = "failed"
           /\ report = <<>>
    /\ (pipe_pc \in {"aggregate", "reported", "returned"} \/ report # <<>>) =>
           /\ failure = NoFailure
           /\ Len(block_analyses) = Len(blocks)
           /\ \A b \in 1..Len(blocks) : \E i \in CallsOf(b) : log[i].outcome = "ok"
    /\ pipe_pc = "reported" =>
           /\ report.raised = ""
           /\ report.value.metadata.total_blocks = Len(blocks)

\* the first segment has been evaluated, the second has failed, and the run
\* of _process_video has ended without a report
C18_Witness ==
    /\ pipe_pc = "failed"
    /\ driver = "_process_video"
    /\ cur = 2
    /\ Len(block_analyses) = 1
    /\ failure.type = "Exception"
    /\ report = <<>>

\* C19: in every pipeline run, segmentation completes before the first
\* segment evaluation starts, each segment is evaluated exactly once, the
\* aggregator is invoked only after all segments have been evaluated, and
\* the list of evaluations it receives is in the segments' timeline order.
C19_SegmentEvaluateAggregateInOrder ==
    /\ pipe_pc = "start" => log = <<>> /\ block_analyses = <<>>
    /\ \A i \in 1..Len(log) : (log[i].step = "chunk") <=> (i = 1)
    /\ \A i, j \in 1..Len(log) :
           (i < j /\ log[i].step = "call" /\ log[j].step = "call") =>
               log[i].block <= log[j].block
    /\ \A b \in 1..Len(blocks) :
           /\ Cardinality(CallsOf(b) \ FailedCallsOf(b)) <= 1
           /\ Cardinality({i \in CallsOf(b) : log[i].attempt = 0}) <= 1
    /\ \A i \in 1..Len(log) :
           log[i].step = "aggregate" =>
               /\ i = Len(log)
               /\ \A b \in 1..Len(blocks) :
                      Cardinality(CallsOf(b) \ FailedCallsOf(b)) = 1
    /\ pipe_pc \in {"aggregate", "reported", "returned"} =>
           [b \in 1..Len(block_analyses) |-> block_analyses[b].block_number]
               = [b \in 1..Len(blocks) |-> blocks[b].block_number]
    /\ pipe_pc = "reported" =>
           /\ log[Len(log)].step = "aggregate"
           /\ report.value.block_analyses = block_analyses

\* a report of three segments, one of them evaluated at a second attempt
C19_Witness ==
    /\ pipe_pc = "reported"
    /\ Len(blocks) = 3
    /\ Len(report.value.block_analyses) = 3
    /\ \E i \in 1..Len(log) : log[i].step = "sleep" /\ log[i].block = 2

---------------------------------------------------------------------------
(* Properties of the packaging of the report *)

\* C21: create_complete_report only copies: the report's overall score is
\* the aggregated overall score, its per-segment detail is the input list
\* of segment evaluations in the same order and unmodified, and the
\* metadata segment count equals the number of input segment evaluations.
C21_ReportOnlyCopies ==
    Reported =>
        /\ report.value.overall_score = report.value.aggregated_analysis.overall_score
        /\ Len(report.value.block_analyses) = Len(block_analyses)
        /\ \A b \in 1..Len(block_analyses) :
               report.value.block_analyses[b] = block_analyses[b]
        /\ report.value.metadata.total_blocks = Len(block_analyses)

\* a report of two segment evaluations that differ, with a non-zero score
C21_Witness ==
    /\ Reported
    /\ Len(block_analyses) = 2
    /\ block_analyses[1].criteria_scores # block_analyses[2].criteria_scores
    /\ report.value.overall_score > 0
    /\ report.value.metadata.total_blocks = 2

---------------------------------------------------------------------------
(* Properties of the grouping into windows, stated on the emitted segments *)

\* D in seconds
WindowSeconds == CHUNK_DURATION_MINUTES * 60

\* the windows an entry of the list can start in
Windows == {vtt_entries[i].start_seconds \div WindowSeconds : i \in 1..Len(vtt_entries)}

\* the entries that start in window k
StartingIn(k) ==
    {i \in 1..Len(vtt_entries) :
        /\ vtt_entries[i].start_seconds >= k * WindowSeconds
        /\ vtt_entries[i].start_seconds < (k + 1) * WindowSeconds}

\* the emitted segments (the window's segment or its sub-segments) that
\* hold an entry of window k
SegmentsOf(k) == {b \in 1..Len(blocks) : Range(blocks[b].entries) \cap StartingIn(k) # {}}

\* "HH:MM" of a number of seconds, as hours and minutes
HoursMinutes(seconds) == <<seconds \div 3600, (seconds % 3600) \div 60>>

\* C22: group_by_time_blocks emits one segment for window k = [k*D, (k+1)*D)
\* if and only if k*D is less than the last entry's end_seconds and at
\* least one entry's start_seconds lies in the window; empty windows emit
\* nothing, and a final window shorter than D is still emitted, labelled
\* with the full range k*D to (k+1)*D and containing exactly the entries
\* that start in it.
C22_WindowEmittedIffWalkedAndNonEmpty ==
    Chunked =>
        /\ \A b \in 1..Len(blocks) : blocks[b].entries # <<>>
        /\ \A k \in Windows :
               /\ SegmentsOf(k) # {}
                      <=> k * WindowSeconds < vtt_entries[Len(vtt_entries)].end_seconds
               /\ SegmentsOf(k) # {} =>
                      /\ UNION {Range(blocks[b].entries) : b \in SegmentsOf(k)} = StartingIn(k)
                      /\ \A b, c \in SegmentsOf(k) :
                             blocks[b].block_number[1] = blocks[c].block_number[1]
                      /\ \A b \in SegmentsOf(k) :
                             /\ blocks[b].block_number[1]
                                    = Cardinality({j \in Windows : j <= k /\ SegmentsOf(j) # {}})
                             /\ Len(blocks[b].block_number) = 1 =>
                                    /\ SegmentsOf(k) = {b}
                                    /\ blocks[b].start_time = HoursMinutes(k * WindowSeconds)
                                    /\ blocks[b].end_time
                                           = HoursMinutes((k + 1) * WindowSeconds)

\* entries in the first and the third window, the last one ending before
\* the third window does: two segments, 00:00-00:30 and 01:00-01:30, and
\* none for the empty second window
C22_Witness ==
    /\ Chunked
    /\ Windows = {0, 2}
    /\ vtt_entries[Len(vtt_entries)].end_seconds < 3 * WindowSeconds
    /\ Len(blocks) = 2
    /\ blocks[1].block_number = <<1>>
    /\ blocks[2].block_number = <<2>>
    /\ blocks[2].start_time = <<1, 0>>
    /\ blocks[2].end_time = <<1, 30>>

---------------------------------------------------------------------------
(* Properties of the greedy splitting *)

\* tokens of entry i as the splitting counts it, with its speaker label
OwnTokens(i) ==
    TextTokens(vtt_entries[i].text)
        + (IF vtt_entries[i].speaker # NoSpeaker
           THEN PrefixTokens + SpaceCost(vtt_entries[i].text) ELSE 0)

RECURSIVE RunTokens(_, _)
RunTokens(run, n) == IF n = 0 THEN 0 ELSE OwnTokens(run[n]) + RunTokens(run, n - 1)

\* the sub-segments of parent p, in emission order
SubSegments(p) ==
    SelectSeq([b \in 1..Len(blocks) |-> b],
              LAMBDA b : Len(blocks[b].block_number) = 2 /\ blocks[b].block_number[1] = p)

\* the runs of the sub-segments of parent p, one after the other
RECURSIVE RunsJoined(_)
RunsJoined(subs) ==
    IF subs = <<>> THEN <<>> ELSE blocks[Head(subs)].entries \o RunsJoined(Tail(subs))

\* the entries of the list that start in the window of entry i, in list order
WindowList(i) ==
    SelectSeq([j \in 1..Len(vtt_entries) |-> j],
              LAMBDA j : vtt_entries[j].start_seconds \div (CHUNK_DURATION_MINUTES * 60)
                             = vtt_entries[i].start_seconds \div (CHUNK_DURATION_MINUTES * 60))

\* C23: when a window exceeds T, _split_vtt_block partitions its entries
\* greedily left to right into contiguous non-empty runs: a run is closed
\* exactly when adding the next entry would make the run's token sum exceed
\* T, so every closed run is maximal, and the runs are numbered parent.1,
\* parent.2, ... consecutively from 1 in order.
C23_GreedyMaximalRuns ==
    Chunked =>
        \A p \in 1..Len(vtt_entries) :
            LET subs == SubSegments(p)
            IN  subs # <<>> =>
                    /\ \A n \in 1..Len(subs) :
                           /\ blocks[subs[n]].block_number = <<p, n>>
                           /\ blocks[subs[n]].entries # <<>>
                           /\ \A j \in 2..Len(blocks[subs[n]].entries) :
                                  RunTokens(blocks[subs[n]].entries, j) <= MAX_TOKENS_PER_CHUNK
                    /\ \A n \in 1..Len(subs) - 1 :
                           RunTokens(blocks[subs[n]].entries, Len(blocks[subs[n]].entries))
                               + OwnTokens(blocks[subs[n + 1]].entries[1])
                                   > MAX_TOKENS_PER_CHUNK
                    /\ \A n \in 1..Len(subs) - 1 : subs[n + 1] = subs[n] + 1
                    /\ RunsJoined(subs) = WindowList(blocks[subs[1]].entries[1])

\* a window of three entries split into a run of two and a run of one
C23_Witness ==
    /\ Chunked
    /\ Len(vtt_entries) = 3
    /\ Len(blocks) = 2
    /\ blocks[1].block_number = <<1, 1>>
    /\ blocks[1].entries = <<1, 2>>
    /\ blocks[2].block_number = <<1, 2>>
    /\ blocks[2].entries = <<3>>

---------------------------------------------------------------------------
(* Properties of the speaker labels *)

\* the speaker of the j-th entry of segment b
SpeakerAt(b, j) == vtt_entries[blocks[b].entries[j]].speaker

\* C24: in the content of every emitted segment, window segments and
\* sub-segments alike, a "Speaker {id}: " prefix is emitted exactly for
\* those entries whose speaker differs from the speaker of the preceding
\* entry in the segment (and for the first attributed entry); an entry
\* whose speaker equals the preceding entry's speaker has no label.  (An
\* attributed entry that follows an unattributed one after an earlier
\* attributed entry is left open here: labelled or not.)
C24_LabelExactlyOnSpeakerChange ==
    Chunked =>
        \A b \in 1..Len(blocks) :
            /\ Len(blocks[b].content) = Len(blocks[b].entries)
            /\ \A j \in 1..Len(blocks[b].entries) :
                   LET labelled == blocks[b].content[j].prefix # NoSpeaker
                   IN  /\ labelled => blocks[b].content[j].prefix = SpeakerAt(b, j)
                       /\ SpeakerAt(b, j) = NoSpeaker => ~labelled
                       /\ (SpeakerAt(b, j) # NoSpeaker
                              /\ \A i \in 1..(j - 1) : SpeakerAt(b, i) = NoSpeaker)
                           => labelled
                       /\ (j > 1 /\ SpeakerAt(b, j) # NoSpeaker
                              /\ SpeakerAt(b, j - 1) # NoSpeaker)
                           => (labelled <=> SpeakerAt(b, j) # SpeakerAt(b, j - 1))

\* a sub-segment labels every attributed entry; a window segment labels an
\* attributed entry unless the last attributed entry before it has the
\* same speaker
C24_LabelsAsEmitted ==
    Chunked =>
        \A b \in 1..Len(blocks) :
            \A j \in 1..Len(blocks[b].entries) :
                (blocks[b].content[j].prefix # NoSpeaker)
                    <=> /\ SpeakerAt(b, j) # NoSpeaker
                        /\ \/ Len(blocks[b].block_number) = 2
                           \/ \A i \in 1..(j - 1) :
                                  (SpeakerAt(b, i) = SpeakerAt(b, j)) =>
                                      \E m \in (i + 1)..(j - 1) :
                                          SpeakerAt(b, m) \notin {NoSpeaker, SpeakerAt(b, j)}


---------------------------------------------------------------------------
(* Text mode with timestamps: coverage of the lines *)

\* the number of places (block, position) of the blocks bs that hold line i
PlacesOfLine(bs, i) ==
    Cardinality({p \in (1..Len(bs)) \X (1..MaxLines + 1) :
                    /\ p[2] <= Len(bs[p[1]].entries)
                    /\ bs[p[1]].entries[p[2]] = i})

TimestampsDetected == \E i \in 1..Len(text_lines) : text_lines[i].ts # NoTs

\* C25: in text mode with detected timestamps every line of the transcript
\* that is not blank, the lines without a timestamp included, is in exactly
\* one emitted block, once.
C25_EveryLineInExactlyOneBlock ==
    TimestampsDetected =>
        \A r \in 1..Len(runs) :
            \A i \in 1..Len(text_lines) :
                text_lines[i].text # "" => PlacesOfLine(runs[r], i) = 1

\* what the code emits: the lines that carry a timestamp once each, and no
\* line without one
C25_OnlyTimestampedLinesEmitted ==
    TimestampsDetected =>
        \A r \in 1..Len(runs) :
            \A i \in 1..Len(text_lines) :
                PlacesOfLine(runs[r], i) = (IF text_lines[i].ts # NoTs THEN 1 ELSE 0)


---------------------------------------------------------------------------
(* Text mode without timestamps: the content-only chunks *)

NoTimestamp ==
    /\ \A i \in 1..Len(text_lines) : text_lines[i].ts = NoTs
    /\ \E i \in 1..Len(text_lines) : text_lines[i].text # ""

RECURSIVE LineSum(_, _)
\* the separate token counts of the first n lines of a chunk, added up
LineSum(chunk, n) ==
    IF n = 0 THEN 0
    ELSE LineSum(chunk, n - 1)
         + (IF text_lines[chunk[n]].text = "" THEN 0
            ELSE TextTokens(text_lines[chunk[n]].text))

RECURSIVE ChunksJoined(_, _)
ChunksJoined(bs, n) ==
    IF n = 0 THEN <<>> ELSE ChunksJoined(bs, n - 1) \o bs[n].entries

\* the emitted blocks are the greedy packing of the lines: they partition
\* the lines in order, a line joins the open chunk while the sum stays
\* within T, and a chunk is closed only where the next line would exceed T
GreedyPacking(bs) ==
    /\ ChunksJoined(bs, Len(bs)) = [i \in 1..Len(text_lines) |-> i]
    /\ \A n \in 1..Len(bs) :
           /\ bs[n].entries # <<>>
           /\ bs[n].content = [j \in 1..Len(bs[n].entries) |-> text_lines[bs[n].entries[j]]]
           /\ \A m \in 2..Len(bs[n].entries) :
                  LineSum(bs[n].entries, m) <= MAX_TOKENS_PER_CHUNK
           /\ n < Len(bs) =>
                  LineSum(bs[n].entries, Len(bs[n].entries))
                      + LineSum(bs[n + 1].entries, 1) > MAX_TOKENS_PER_CHUNK

\* the token count of a chunk's lines joined by "\n"
JoinedTokens(chunk) == LineSum(chunk, Len(chunk)) + (Len(chunk) - 1) * NewlineTokens

PositionalLabels(b, n) ==
    /\ b.block_number = <<n>>
    /\ b.start_time = <<"Block", n, "Start">>
    /\ b.end_time = <<"Block", n, "End">>

PartLabels(b, n) ==
    /\ b.block_number = <<n, 1>>
    /\ b.start_time = <<"Block", n, "Start", 1>>
    /\ b.end_time = <<"Block", n, "End", 1>>

---------------------------------------------------------------------------
(* Properties of the score of a parsed criterion *)

\* the number, in tenths, a response gives for the rubric key at place c
GivenTenths(c) == response[EVALUATION_CRITERIA[c]].score[2]

GivesNumber(c) ==
    /\ response[EVALUATION_CRITERIA[c]].shape = "dict"
    /\ response[EVALUATION_CRITERIA[c]].score[1] = "number"

\* the given number moved into [1, 5], in tenths
IntoRange(t) == IF t < 10 THEN 10 ELSE IF t > 50 THEN 50 ELSE t

LightOf(s) == IF s >= 4 THEN "green" ELSE IF s = 3 THEN "yellow" ELSE "red"

\* C27: for any number the evaluator gives as a score, fractional, below 1
\* or above 5, the CriterionScore built has an integer score in 1..5 that is
\* an integer nearest to the number clamped to [1, 5], and its traffic light
\* is the table's value for that integer.
C27_ScoreClampedRoundedAndLit ==
    Built =>
        \A c \in 1..Len(EVALUATION_CRITERIA) :
            GivesNumber(c) =>
                LET cs == parsed.value.criteria_scores[c]
                    d  == 10 * cs.score - IntoRange(GivenTenths(c))
                IN  /\ cs.score \in 1..5
                    /\ d >= -5 /\ d <= 5
                    /\ cs.traffic_light = LightOf(cs.score)

\* a score of 0 for the first rubric key and of 4.5 for the second
C27_Witness ==
    /\ Built
    /\ GivesNumber(1) /\ GivenTenths(1) = 0
    /\ GivesNumber(2) /\ GivenTenths(2) = 45
    /\ parsed.value.criteria_scores[1].score = 1
    /\ parsed.value.criteria_scores[1].traffic_light = "red"
    /\ parsed.value.criteria_scores[2].score = 4
    /\ parsed.value.criteria_scores[2].traffic_light = "green"


---------------------------------------------------------------------------
(* Properties of the status of a background task (process-async.py) *)

C28_ResultStoredAfterStatus ==
    \A t \in 1..Len(processing_tasks) :
        processing_tasks[t].result = "stored" => processing_tasks[t].status = "completed"


---------------------------------------------------------------------------
(* Properties of the split processing (process-split.py) *)

\* the start request of thread k answered 202 and the thread has completed
\* the processing since
CompletedInBackground(k) ==
    /\ k <= Len(bg)
    /\ bg[k].answered
    /\ bg[k].status = "completed"

StoredFor(k) == k <= Len(bg) /\ task_files[bg[k].task_id] = "completed"

C29_StoredOnlyByStartInTime ==
    \A t \in TaskIds :
        task_files[t] = "completed" =>
            \E i \in 1..Len(split_replies) :
                split_replies[i] = SplitReply("start", t, 200, "processed")


---------------------------------------------------------------------------
(* Properties of the status of a queued task (process.py, process-video.py, *)
(* status.py)                                                               *)

StatusMoves == {<<"queued", "processing">>, <<"processing", "completed">>,
                <<"processing", "failed">>}

\* C30: the status of a task only moves queued -> processing -> completed
\* or failed: every change of a stored status is one of these moves.
C30_StatusOnlyMovesForward ==
    [][\A t \in 1..Len(redis_task) :
           redis_task'[t].status # redis_task[t].status =>
               <<redis_task[t].status, redis_task'[t].status>> \in StatusMoves]_vars

\* the result is stored before the status becomes 'completed', and a status
\* request never answers 'completed' without the result
C30_ResultStoredBeforeCompleted ==
    /\ \A t \in 1..Len(redis_task) :
           redis_task[t].status = "completed" => redis_result[t] = "stored"
    /\ \A i \in 1..Len(status_replies) :
           status_replies[i].status = "completed" => status_replies[i].result = "stored"

\* when _process_video raises, the status becomes 'failed' with the error
\* recorded and is never 'completed'
C30_FailedProcessingNeverCompleted ==
    \A t \in 1..Len(worker) :
        worker[t].raised_at = "processing" =>
            /\ redis_task[t].status # "completed"
            /\ redis_result[t] = "none"
            /\ worker[t].pc = "done" =>
                   redis_task[t].status = "failed" /\ redis_task[t].error = "recorded"

====
